---- MODULE Spec2Model ----
(***************************************************************************)
(* Model of the artifact distribution and caching subsystem of the        *)
(* marketplace backend: IPFSService.download_file (multi-gateway fetch),  *)
(* ModelManager (registry, disk cache, memory cache) and the request      *)
(* handlers of main.py that are built on them.                            *)
(*                                                                         *)
(* A handler is one in-flight call.  A call that fetches is split at its  *)
(* I/O points (one step per gateway attempt and per streamed chunk), so   *)
(* that the states another handler, or a later call, can observe are the  *)
(* states of the model.  Everything else a call does between two I/O      *)
(* points happens in one step.                                            *)
(***************************************************************************)
EXTENDS Integers, Sequences, FiniteSets, TLC

VARIABLES
    IPFS_GATEWAY,    \* ipfs_service.IPFS_GATEWAY, fixed when the module is imported
    handlers,        \* the handlers that run calls in this process
    registry,        \* ModelManager.registry['models'], in memory
    regFile,         \* the content of models_registry.json
    loaded_models,   \* ModelManager.loaded_models: model id -> loaded object
    files,           \* the files under MODEL_CACHE_DIR: path -> file
    hs,              \* per handler: its call in flight, or the result of its last call
    nextObj,         \* identity of the next object a loader creates
    PINATA_KEYS,     \* PINATA_API_KEY and PINATA_SECRET_KEY are both set
    pinned,          \* the provider's pin list: the rows pinList answers with
    ua,              \* the unpin_all call in flight, or the result of the last one
    peer,            \* a second ModelManager instance, in another process
    main_model       \* the global 'model' of main.py: the default model, or None

vars == <<IPFS_GATEWAY, handlers, registry, regFile, loaded_models, files,
          hs, nextObj, PINATA_KEYS, pinned, ua, peer, main_model>>

\* What lies outside the ModelManager of this process
envVars == <<PINATA_KEYS, pinned, ua, peer, main_model>>

----------------------------------------------------------------------------
(* Bounds of the model *)

MaxModels == 2       \* records the registry holds at most
NChunks == 2         \* chunks in the body a gateway streams
MaxObjects == 2      \* objects the loaders create at most
MaxDownloads == 1    \* cap of the 'downloads' counter
MaxPins == 3         \* rows the provider's pin list holds at most

Handlers == {"h1", "h2"}
Ids == {"m1", "m2"}

----------------------------------------------------------------------------
(* ipfs_service.py: gateways *)

DEFAULT_GATEWAY == "https://gateway.pinata.cloud/ipfs/"

\* Values of the environment variable IPFS_GATEWAY: unset, one of the
\* fallback gateways, a gateway of the operator's own
GatewayChoices ==
    { DEFAULT_GATEWAY, "https://ipfs.io/ipfs/",
      "https://cloudflare-ipfs.com/ipfs/", "https://my.gw/ipfs/" }

\* "Remove duplicates while preserving order"
RECURSIVE DedupFrom(_, _)
DedupFrom(xs, seen) ==
    IF xs = <<>> THEN <<>>
    ELSE IF Head(xs) \in seen THEN DedupFrom(Tail(xs), seen)
         ELSE <<Head(xs)>> \o DedupFrom(Tail(xs), seen \cup {Head(xs)})

\* The candidate list used as it was built, duplicates included
DedupNothing(xs) == xs

Dedup(xs) == DedupFrom(xs, {})

\* The list of line 151 with the configured gateway after the fixed ones
RawGatewaysPrimaryLast(primary, ipfs_hash) ==
    << "https://gateway.pinata.cloud/ipfs/" \o ipfs_hash,
       "https://ipfs.io/ipfs/" \o ipfs_hash,
       "https://cloudflare-ipfs.com/ipfs/" \o ipfs_hash,
       primary \o ipfs_hash >>

RawGateways(primary, ipfs_hash) ==
    << primary \o ipfs_hash,
       "https://gateway.pinata.cloud/ipfs/" \o ipfs_hash,
       "https://ipfs.io/ipfs/" \o ipfs_hash,
       "https://cloudflare-ipfs.com/ipfs/" \o ipfs_hash >>

Gateways(primary, ipfs_hash) == Dedup(RawGateways(primary, ipfs_hash))

----------------------------------------------------------------------------
(* model_manager.py: registry *)

NoHash == ""                \* a record without 'ipfs_hash' is metadata-only
NoStamp == ""               \* a record passed to add_model without 'uploaded_at'
Now == "2024-01-01T00:00:00"

\* The records the callers of add_model pass in.  Two of them carry the same
\* id: nothing in the callers prevents that.
NewRecords ==
    { [id |-> "m1", ipfs_hash |-> "Qm1", model_type |-> "keras",
       downloads |-> 0, uploaded_at |-> NoStamp,
       creator |-> "0xAb", name |-> "n0", gateway_url |-> ""],
      [id |-> "m2", ipfs_hash |-> NoHash, model_type |-> "pkl",
       downloads |-> 0, uploaded_at |-> Now,
       creator |-> "0xcd", name |-> "n0", gateway_url |-> ""],
      [id |-> "m1", ipfs_hash |-> "Qm2", model_type |-> "pkl",
       downloads |-> 0, uploaded_at |-> NoStamp,
       creator |-> "0xAb", name |-> "n0", gateway_url |-> ""],
      [id |-> "m2", ipfs_hash |-> "Qm2", model_type |-> "onnx",
       downloads |-> 0, uploaded_at |-> NoStamp,
       creator |-> "0xcd", name |-> "n0", gateway_url |-> ""] }

\* Position of the first record with this id, 0 when there is none
ModelIndex(models, model_id) ==
    IF \E i \in 1..Len(models) : models[i].id = model_id
    THEN CHOOSE i \in 1..Len(models) :
            /\ models[i].id = model_id
            /\ \A j \in 1..(i - 1) : models[j].id # model_id
    ELSE 0

\* get_model_info without the comparison of the ids
get_model_info_first(models, model_id) ==
    IF models = <<>> THEN <<>> ELSE << models[1] >>

\* The record, as a sequence of length 1, or <<>> for None
get_model_info(models, model_id) ==
    IF ModelIndex(models, model_id) = 0 THEN <<>>
    ELSE << models[ModelIndex(models, model_id)] >>

list_models(models) == models

Extension(model_type) ==
    CASE model_type = "keras" -> ".keras"
      [] model_type = "h5" -> ".h5"
      [] model_type = "pkl" -> ".pkl"
      [] model_type = "pt" -> ".pt"
      [] OTHER -> ".keras"

\* The path, as a sequence of length 1, or <<>> for None
get_cached_model_path(models, model_id) ==
    IF get_model_info(models, model_id) = <<>> THEN <<>>
    ELSE << model_id \o Extension(get_model_info(models, model_id)[1].model_type) >>

CachePaths == { i \o e : i \in Ids, e \in {".keras", ".h5", ".pkl", ".pt"} }

is_model_cached(models, fs, model_id) ==
    /\ get_cached_model_path(models, model_id) # <<>>
    /\ fs[get_cached_model_path(models, model_id)[1]].exists

\* The methods class ModelManager defines; calling any other name on the
\* instance raises AttributeError.
ModelManagerMethods ==
    { "_load_registry", "_save_registry", "add_model", "get_model_info",
      "list_models", "get_cached_model_path", "is_model_cached",
      "download_model", "load_model", "unload_model", "clear_cache" }

----------------------------------------------------------------------------
(* Files of the disk cache *)

NoFile == [exists |-> FALSE, data |-> <<>>]
EmptyFile == [exists |-> TRUE, data |-> <<>>]

Chunk(ipfs_hash, k) == <<ipfs_hash, k>>
Hole == <<"", 0>>

\* The bytes the content id addresses, as the sequence of chunks
\* response.iter_content yields
Body(ipfs_hash) == [k \in 1..NChunks |-> Chunk(ipfs_hash, k)]

\* open(save_path, 'ab'): creates the file or keeps what it holds
OpenAb(f) == [exists |-> TRUE, data |-> f.data]

\* open(save_path, 'wb'): creates the file or truncates it
OpenWb(f) == EmptyFile

\* f.write(chunk) through a descriptor whose offset is pos - 1
WriteAt(f, pos, c) ==
    [exists |-> TRUE,
     data |-> [i \in 1..(IF Len(f.data) > pos THEN Len(f.data) ELSE pos) |->
                 IF i = pos THEN c
                 ELSE IF i <= Len(f.data) THEN f.data[i] ELSE Hole]]

----------------------------------------------------------------------------
(* Calls.  hs[h] is the call handler h runs: where it stands (pc), its     *)
(* locals while it is in flight, and, once pc is "idle" again, what it     *)
(* returned, until the handler starts its next call.                       *)

NoCall == [pc |-> "idle", op |-> "none", id |-> "",
           \* locals of the call in flight
           ri |-> 0, hash |-> "", path |-> "", cands |-> <<>>, idx |-> 0,
           k |-> 0, off |-> 0, fd |-> "closed",
           \* what the call saw when it started
           cold |-> FALSE, dlMem |-> 0 - 1, dlFile |-> 0 - 1,
           \* the call repeats the one this handler made before, which
           \* found the id cold and returned an object
           again |-> FALSE,
           \* what the call did: the URLs it requested, how many of them
           \* failed, whether one that failed had opened the file, the
           \* result of download_file
           tried |-> <<>>, failed |-> 0, partial |-> FALSE, df |-> "none",
           \* the status the pinning provider answered with, 0 when it
           \* gave no answer or was not asked, and the number of requests
           \* the call sent to it
           http |-> 0, sent |-> 0,
           \* the wallet address of the request, and whether it is the
           \* creator of the record the request found
           wallet |-> "", owned |-> FALSE,
           \* the name an update request asks for, "" when it gives none
           patch |-> "",
           \* a predict request: whether the upload is an image, the status
           \* of the response (0 while there is none) and the exception its
           \* 'detail' names, the object that made the prediction and the
           \* 'model_source' of the response
           img |-> TRUE, resp |-> 0, detail |-> "", served |-> 0, source |-> "",
           \* the records a listing request answered with
           listing |-> <<>>,
           \* what the call returned
           kind |-> "none", val |-> 0, populated |-> FALSE]

Downloads(models, model_id) ==
    IF get_model_info(models, model_id) = <<>> THEN 0 - 1
    ELSE get_model_info(models, model_id)[1].downloads

\* A call of op on model_id begins in handler h
Begin(h, op, model_id) ==
    [NoCall EXCEPT !.op = op, !.id = model_id,
                   !.again = /\ hs[h].op = op /\ hs[h].id = model_id
                             /\ hs[h].cold /\ hs[h].kind = "handle",
                   !.ri = ModelIndex(registry, model_id),
                   !.cold = /\ model_id \in Ids
                            /\ ~ is_model_cached(registry, files, model_id)
                            /\ model_id \notin DOMAIN loaded_models,
                   !.dlMem = Downloads(registry, model_id),
                   !.dlFile = Downloads(regFile, model_id)]

\* The call c returns (kind, val); the load_model call of a predict request
\* returns into the handler, which goes on at main.py line 476
Return(c, kind, val) ==
    [c EXCEPT !.pc = IF c.op = "predict" THEN "pr_tail" ELSE "idle", !.ri = 0, !.hash = "", !.path = "",
              !.cands = <<>>, !.idx = 0, !.k = 0, !.off = 0, !.fd = "closed",
              !.kind = kind, !.val = val]

Bool(b) == IF b THEN 1 ELSE 0

\* The global 'model' of main.py is None; the object keras.models.load_model returned at startup
NoModel == 0
DefaultModel == 99

AllIdle == \A h \in handlers : hs[h].pc = "idle"

Idle(h) == h \in handlers /\ hs[h].pc = "idle"

----------------------------------------------------------------------------
(* ipfs_service.py: the pinning provider *)

\* The other instance: not constructed yet; once constructed, the registry
\* it holds in memory and the ids its add_model calls returned True for
NoPeer == [started |-> FALSE, registry |-> <<>>, added |-> <<>>]

\* The content ids the provider knows
Cids == {"Qm1", "Qm2", "Qm3"}

\* str.lower() on the strings of the model
Lower(str) ==
    CASE str \in {"YES", "Yes", "yes"} -> "yes"
      [] str \in {"NO", "no"} -> "no"
      [] str \in {"0xAB", "0xAb", "0xab"} -> "0xab"
      [] str \in {"0xCD", "0xcd"} -> "0xcd"
      [] OTHER -> str

\* A row of the answer of pinList; a row without 'ipfs_pin_hash' has NoHash
Row(cid) == [ipfs_pin_hash |-> cid]

RECURSIVE SeqsUpTo(_, _)
SeqsUpTo(S, n) ==
    IF n = 0 THEN { <<>> }
    ELSE SeqsUpTo(S, n - 1) \cup
         { Append(q, x) : q \in { r \in SeqsUpTo(S, n - 1) : Len(r) = n - 1 },
                          x \in S }

\* The pin lists of an account: a content id is pinned once
PinLists ==
    { q \in SeqsUpTo({ Row(c) : c \in Cids \cup {NoHash} }, MaxPins) :
        \A a, b \in 1..Len(q) :
            (a # b /\ q[a].ipfs_pin_hash # NoHash) => q[a] # q[b] }

\* What the provider can do with one request: answer 200, answer another
\* status, not be reached, or act and have its answer lost on the way
ProviderOutcomes == {"ok200", "non200", "conn_error", "lost_reply"}

\* The status the caller sees, 0 when requests raises
StatusOf(outcome) ==
    CASE outcome = "ok200" -> 200
      [] outcome = "non200" -> 500
      [] OTHER -> 0

\* The pin list without the rows of cid
RemovePin(pins, cid) == SelectSeq(pins, LAMBDA r : r.ipfs_pin_hash # cid)

\* The pin list after DELETE pinning/unpin/{cid} had this outcome
PinsAfterUnpin(pins, cid, outcome) ==
    IF outcome \in {"ok200", "lost_reply"} THEN RemovePin(pins, cid) ELSE pins

\* unpin_file returning True for every answer, whatever its status
UnpinReturnsAnyAnswer(keys, outcome) == keys /\ StatusOf(outcome) # 0

\* What unpin_file returns: False without credentials (no request is made),
\* else True exactly for status 200; an exception of requests gives False
UnpinReturns(keys, outcome) == keys /\ StatusOf(outcome) = 200

\* list_pinned_files: the rows of the answer, [] without credentials, for
\* another status than 200 and for an exception
list_pinned_files(keys, pins, outcome) ==
    IF keys /\ StatusOf(outcome) = 200 THEN pins ELSE <<>>

\* unpin_all: where the call stands, who made it and what it was given as
\* confirmation, the rows it was given, the row it is at, its two tallies
\* and the ids it asked to unpin; once pc is "idle" again, how it ended
NoUnpinAll == [pc |-> "idle", caller |-> "none", given |-> "",
               rows |-> <<>>, i |-> 0,
               success_count |-> 0, failed_hashes |-> <<>>,
               attempts |-> <<>>, result |-> "none", status |-> 0]

----------------------------------------------------------------------------
\* The server after start-up: IPFS_GATEWAY is not set, models_registry.json
\* does not exist yet and is created empty, the cache directory is empty
Init ==
    /\ IPFS_GATEWAY = DEFAULT_GATEWAY
    /\ handlers = {"h1"}
    /\ registry = <<>>
    /\ regFile = <<>>
    /\ loaded_models = <<>>
    /\ files = [p \in CachePaths |-> NoFile]
    /\ hs = [h \in Handlers |-> NoCall]
    /\ nextObj = 1
    /\ PINATA_KEYS = TRUE
    /\ pinned = <<>>
    /\ ua = NoUnpinAll
    /\ peer = NoPeer
    /\ main_model = NoModel

\* Registry files the process can find when it starts
SeedRegistries ==
    { << [id |-> "m1", ipfs_hash |-> "Qm1", model_type |-> "keras",
          downloads |-> 0, uploaded_at |-> Now,
       creator |-> "0xAb", name |-> "n0", gateway_url |-> ""] >>,
      << [id |-> "m1", ipfs_hash |-> "Qm1", model_type |-> "keras",
          downloads |-> 0, uploaded_at |-> Now,
       creator |-> "0xAb", name |-> "n0", gateway_url |-> ""],
         [id |-> "m2", ipfs_hash |-> "Qm2", model_type |-> "onnx",
          downloads |-> 0, uploaded_at |-> Now,
       creator |-> "0xcd", name |-> "n0", gateway_url |-> ""] >>,
      << [id |-> "m2", ipfs_hash |-> NoHash, model_type |-> "pkl",
          downloads |-> 0, uploaded_at |-> Now,
       creator |-> "0xcd", name |-> "n0", gateway_url |-> ""],
         [id |-> "m2", ipfs_hash |-> "Qm2", model_type |-> "pkl",
          downloads |-> 0, uploaded_at |-> Now,
       creator |-> "0xcd", name |-> "n0", gateway_url |-> ""] >> }

\* A process that starts with a registry file and any gateway configuration
InitFetch ==
    /\ IPFS_GATEWAY \in GatewayChoices
    /\ handlers = {"h1"}
    /\ registry \in SeedRegistries
    /\ regFile = registry
    /\ loaded_models = <<>>
    /\ files = [p \in CachePaths |-> NoFile]
    /\ hs = [h \in Handlers |-> NoCall]
    /\ nextObj = 1
    /\ PINATA_KEYS = TRUE
    /\ pinned = <<>>
    /\ ua = NoUnpinAll
    /\ peer = NoPeer
    /\ main_model = NoModel

\* Two resolutions in flight at a time on one cache directory, which no
\* event loop serializes: callers of ModelManager outside the handlers of
\* main.py (test_full_workflow.py next to the server, callers on threads)
InitConc ==
    /\ IPFS_GATEWAY = DEFAULT_GATEWAY
    /\ handlers = Handlers
    /\ registry = << [id |-> "m1", ipfs_hash |-> "Qm1", model_type |-> "keras",
                      downloads |-> 0, uploaded_at |-> Now,
       creator |-> "0xAb", name |-> "n0", gateway_url |-> ""] >>
    /\ regFile = registry
    /\ loaded_models = <<>>
    /\ files = [p \in CachePaths |-> NoFile]
    /\ hs = [h \in Handlers |-> NoCall]
    /\ nextObj = 1
    /\ PINATA_KEYS = TRUE
    /\ pinned = <<>>
    /\ ua = NoUnpinAll
    /\ peer = NoPeer
    /\ main_model = NoModel

----------------------------------------------------------------------------
(* ModelManager.add_model *)

\* json.dump into open(REGISTRY_FILE, 'w'): "ok", or the open raises
SaveOutcomes == {"ok", "open_error"}

Stamp(model_info) ==
    IF model_info.uploaded_at = NoStamp
    THEN [model_info EXCEPT !.uploaded_at = Now] ELSE model_info

add_model(h, model_info, save) ==
    /\ Idle(h)
    /\ Len(registry) < MaxModels
    /\ registry' = Append(registry, Stamp(model_info))
    /\ regFile' = IF save = "ok" THEN registry' ELSE regFile
    /\ hs' = [hs EXCEPT ![h] = Return(Begin(h, "add_model", model_info.id),
                                      "bool", Bool(save = "ok"))]
    /\ UNCHANGED <<IPFS_GATEWAY, handlers, loaded_models, files, nextObj>>
    /\ UNCHANGED envVars

----------------------------------------------------------------------------
(* IPFSService.download_file, one step per I/O point *)

\* What one candidate can do before its body is streamed: requests.get
\* raises, answers with another status than 200, or answers 200 and then
\* open(save_path, 'wb') raises or succeeds.
TryOutcomes == {"conn_error", "non200", "open_error", "ok200"}

\* What can happen while the body is streamed into the file
StreamEvents == {"chunk", "stream_error", "write_error"}

\* The exception an outcome raises, "none" when it raises nothing
Raised(outcome) ==
    CASE outcome \in {"conn_error", "stream_error"} -> "RequestException"
      [] outcome \in {"open_error", "write_error"} -> "OSError"
      [] OTHER -> "none"

\* 'except requests.RequestException' in the place of line 185
InnerCatchesRequestsOnly(exc) == exc = "RequestException"

\* 'except Exception' of the candidate loop (line 185)
InnerCatches(exc) == exc \in {"RequestException", "OSError"}

\* 'except Exception' around the body of download_file (line 192)
OuterCatches(exc) == exc \in {"RequestException", "OSError"}

\* download_file(ipfs_hash, save_path) is entered by the call c:
\* save_path.parent exists, so the mkdir changes nothing
EnterDownloadFile(c, ipfs_hash, save_path) ==
    [c EXCEPT !.pc = "df_try", !.hash = ipfs_hash, !.path = save_path,
              !.cands = Gateways(IPFS_GATEWAY, ipfs_hash), !.idx = 1]

\* The status the purchase request ends with after download_model returned
\* True and the counter was incremented: model_manager.update_model is called
PurchaseStatus == IF "update_model" \in ModelManagerMethods THEN 200 ELSE 500

IncrementDownloads(models, i) == [models EXCEPT ![i].downloads = @ + 1]

\* download_model returns ok (a boolean) to the call c that made it:
\* load_model (on its own or in a predict request), purchase_model, or a
\* caller of download_model itself
DownloadModelReturns(h, c, ok) ==
    CASE c.op = "download_model" ->
           /\ hs' = [hs EXCEPT ![h] = Return(c, "bool", Bool(ok))]
           /\ UNCHANGED <<registry, loaded_models, nextObj>>
      [] c.op \in {"load_model", "predict"} ->
           /\ hs' = [hs EXCEPT ![h] = IF ok THEN [c EXCEPT !.pc = "lm_load"]
                                     ELSE Return(c, "none", 0)]
           /\ UNCHANGED <<registry, loaded_models, nextObj>>
      [] c.op = "purchase_model" ->
           /\ hs' = [hs EXCEPT ![h] =
                        Return(c, "http", IF ok THEN PurchaseStatus ELSE 500)]
           /\ registry' = IF ok THEN IncrementDownloads(registry, c.ri)
                          ELSE registry
           /\ UNCHANGED <<loaded_models, nextObj>>

\* download_file returns r: "true", "false", or "raised" when an exception
\* leaves it, which the 'except Exception' of download_model turns into False
DownloadFileReturns(h, c, r) ==
    DownloadModelReturns(h, [c EXCEPT !.df = r, !.fd = "closed"], r = "true")

\* The candidate c.idx has failed, raising exc ("none": a status other
\* than 200)
\* A loop that asks the candidate that failed once more
SameCandidate(c) == c.idx

\* 'for gateway_url in gateways' / 'continue': the candidate after this one
NextCandidate(c) == c.idx + 1

CandidateFailed(h, c, exc) ==
    IF exc = "none" \/ InnerCatches(exc)
    THEN IF c.idx < Len(c.cands)
         THEN /\ hs' = [hs EXCEPT ![h] = [c EXCEPT !.pc = "df_try",
                                                   !.idx = NextCandidate(c),
                                                   !.k = 0, !.off = 0,
                                                   !.fd = "closed",
                                                   !.failed = @ + 1]]
              /\ UNCHANGED <<registry, loaded_models, nextObj>>
         ELSE DownloadFileReturns(h, [c EXCEPT !.failed = @ + 1], "false")
    ELSE IF OuterCatches(exc)
         THEN DownloadFileReturns(h, [c EXCEPT !.failed = @ + 1], "false")
         ELSE DownloadFileReturns(h, [c EXCEPT !.failed = @ + 1], "raised")

df_try(h, outcome) ==
    /\ h \in handlers
    /\ hs[h].pc = "df_try"
    /\ LET c == [hs[h] EXCEPT !.tried = Append(@, hs[h].cands[hs[h].idx])] IN
       IF outcome = "ok200"
       THEN /\ files' = [files EXCEPT ![c.path] = OpenWb(@)]
            \* the descriptor stands at the end of the truncated file
            /\ hs' = [hs EXCEPT ![h] = [c EXCEPT !.pc = "df_stream", !.k = 0,
                                                 !.off = Len(OpenWb(files[c.path]).data),
                                                 !.fd = "open"]]
            /\ UNCHANGED <<registry, loaded_models, nextObj>>
       ELSE /\ CandidateFailed(h, c, Raised(outcome))
            /\ UNCHANGED files
    /\ UNCHANGED <<IPFS_GATEWAY, handlers, regFile>>
    /\ UNCHANGED envVars

df_stream(h, ev) ==
    /\ h \in handlers
    /\ hs[h].pc = "df_stream"
    /\ LET c == hs[h] IN
       IF ev = "chunk"
       THEN /\ files' = IF c.fd = "open"
                        THEN [files EXCEPT ![c.path] =
                                 WriteAt(@, c.off + 1, Chunk(c.hash, c.k + 1))]
                        ELSE files
            /\ IF c.k + 1 = NChunks
               THEN DownloadFileReturns(h, [c EXCEPT !.k = c.k + 1], "true")
               ELSE /\ hs' = [hs EXCEPT ![h] = [c EXCEPT !.k = c.k + 1,
                                                        !.off = c.off + 1]]
                    /\ UNCHANGED <<registry, loaded_models, nextObj>>
       ELSE /\ CandidateFailed(h, [c EXCEPT !.partial = TRUE], Raised(ev))
            /\ UNCHANGED files
    /\ UNCHANGED <<IPFS_GATEWAY, handlers, regFile>>
    /\ UNCHANGED envVars

----------------------------------------------------------------------------
(* ModelManager.download_model *)

\* download_model without the check of lines 125-128
DownloadDecisionAnyHash(models, fs, model_id) ==
    IF get_model_info(models, model_id) = <<>> THEN "not_found"
    ELSE IF fs[get_cached_model_path(models, model_id)[1]].exists THEN "cached"
    ELSE "fetch"

\* What download_model does with the id before any fetch
DownloadDecision(models, fs, model_id) ==
    IF get_model_info(models, model_id) = <<>> THEN "not_found"
    ELSE IF get_model_info(models, model_id)[1].ipfs_hash = NoHash THEN "no_hash"
    ELSE IF fs[get_cached_model_path(models, model_id)[1]].exists THEN "cached"
    ELSE "fetch"

\* The call c reaches download_model(c.id)
EnterDownloadModel(h, c) ==
    IF DownloadDecision(registry, files, c.id) = "fetch"
    THEN /\ hs' = [hs EXCEPT ![h] =
                     EnterDownloadFile(c,
                         get_model_info(registry, c.id)[1].ipfs_hash,
                         get_cached_model_path(registry, c.id)[1])]
         /\ UNCHANGED <<registry, loaded_models, nextObj>>
    ELSE DownloadModelReturns(h, c,
             DownloadDecision(registry, files, c.id) = "cached")

download_model(h, model_id) ==
    /\ Idle(h)
    /\ EnterDownloadModel(h, Begin(h, "download_model", model_id))
    /\ UNCHANGED <<IPFS_GATEWAY, handlers, regFile, files>>
    /\ UNCHANGED envVars

----------------------------------------------------------------------------
(* main.py: purchase_model *)

purchase_model(h, model_id) ==
    /\ Idle(h)
    /\ IF get_model_info(registry, model_id) = <<>>
       THEN /\ hs' = [hs EXCEPT ![h] =
                        Return(Begin(h, "purchase_model", model_id), "http", 404)]
            /\ UNCHANGED <<registry, loaded_models, nextObj>>
       ELSE /\ get_model_info(registry, model_id)[1].downloads < MaxDownloads
            /\ EnterDownloadModel(h, Begin(h, "purchase_model", model_id))
    /\ UNCHANGED <<IPFS_GATEWAY, handlers, regFile, files>>
    /\ UNCHANGED envVars

----------------------------------------------------------------------------
(* ModelManager.load_model *)

SupportedTypes == {"keras", "h5", "pkl", "pt"}

\* What the loader of the type does with the file: an object, or an exception
LoadOutcomes == {"ok", "loader_error"}

\* The loaders read a file that holds a complete body; anything else raises
Readable(f) == f.exists /\ \E x \in {"Qm1", "Qm2"} : f.data = Body(x)

\* self.loaded_models[model_id] = model, without the assignment
StoreNothing(lm, model_id, model) == lm

\* self.loaded_models[model_id] = model
Store(lm, model_id, model) ==
    [i \in DOMAIN lm \cup {model_id} |-> IF i = model_id THEN model ELSE lm[i]]

\* Lines 164-180: load_model(c.id) is entered by the call c
EnterLoadModel(h, c) ==
    IF c.id \in DOMAIN loaded_models
    THEN /\ hs' = [hs EXCEPT ![h] =
                     Return(c, "handle", loaded_models[c.id].obj)]
         /\ UNCHANGED <<registry, loaded_models, nextObj>>
    ELSE IF get_model_info(registry, c.id) = <<>>
    THEN /\ hs' = [hs EXCEPT ![h] = Return(c, "none", 0)]
         /\ UNCHANGED <<registry, loaded_models, nextObj>>
    ELSE IF ~ is_model_cached(registry, files, c.id)
    THEN EnterDownloadModel(h, c)
    ELSE /\ hs' = [hs EXCEPT ![h] = [c EXCEPT !.pc = "lm_load"]]
         /\ UNCHANGED <<registry, loaded_models, nextObj>>

load_model(h, model_id) ==
    /\ Idle(h)
    /\ nextObj <= MaxObjects
    /\ EnterLoadModel(h, Begin(h, "load_model", model_id))
    /\ UNCHANGED <<IPFS_GATEWAY, handlers, regFile, files>>
    /\ UNCHANGED envVars

\* Lines 182-228: the file at the cache path is handed to the loader of the
\* record's model type
lm_load(h, outcome) ==
    /\ h \in handlers
    /\ hs[h].pc = "lm_load"
    /\ LET c == hs[h]
           f == files[get_cached_model_path(registry, c.id)[1]]
           loaded == /\ registry[c.ri].model_type \in SupportedTypes
                     /\ Readable(f)
                     /\ outcome = "ok"
       IN  IF loaded
           THEN /\ loaded_models' = Store(loaded_models, c.id,
                                           [obj |-> nextObj, data |-> f.data])
                /\ nextObj' = nextObj + 1
                /\ hs' = [hs EXCEPT ![h] =
                            Return([c EXCEPT !.populated = TRUE],
                                   "handle", nextObj)]
           ELSE /\ hs' = [hs EXCEPT ![h] = Return(c, "none", 0)]
                /\ UNCHANGED <<loaded_models, nextObj>>
    /\ UNCHANGED <<IPFS_GATEWAY, handlers, registry, regFile, files>>
    /\ UNCHANGED envVars

\* 'del' of every entry in the place of line 233
UnloadAll(lm, model_id) == <<>>

\* if model_id in self.loaded_models: del self.loaded_models[model_id]
Unload(lm, model_id) == [i \in DOMAIN lm \ {model_id} |-> lm[i]]

unload_model(h, model_id) ==
    /\ Idle(h)
    /\ loaded_models' = Unload(loaded_models, model_id)
    /\ hs' = [hs EXCEPT ![h] = Return(Begin(h, "unload_model", model_id), "none", 0)]
    /\ UNCHANGED <<IPFS_GATEWAY, handlers, registry, regFile, files, nextObj>>
    /\ UNCHANGED envVars

\* shutil.rmtree(MODEL_CACHE_DIR) and mkdir: every file is unlinked; a
\* descriptor that is open keeps its unlinked file
clear_cache(h) ==
    /\ Idle(h)
    /\ files' = [p \in CachePaths |-> NoFile]
    /\ hs' = [g \in Handlers |->
                IF g = h THEN Return(Begin(h, "clear_cache", ""), "none", 0)
                ELSE IF hs[g].fd = "open" THEN [hs[g] EXCEPT !.fd = "unlinked"]
                ELSE hs[g]]
    /\ UNCHANGED <<IPFS_GATEWAY, handlers, registry, regFile, loaded_models,
                   nextObj>>
    /\ UNCHANGED envVars

----------------------------------------------------------------------------
(* IPFSService.unpin_file, unpin_all and the two callers of unpin_all *)

\* The variables of the registry and of the caches
coreVars == <<IPFS_GATEWAY, handlers, registry, regFile, loaded_models, files,
              nextObj>>

\* ipfs_service.unpin_file(cid), called on its own
unpin_file(h, cid, outcome) ==
    /\ Idle(h)
    /\ ua.pc = "idle"
    /\ pinned' = IF PINATA_KEYS THEN PinsAfterUnpin(pinned, cid, outcome)
                 ELSE pinned
    /\ hs' = [hs EXCEPT ![h] =
                 Return([Begin(h, "unpin_file", cid) EXCEPT
                            !.http = IF PINATA_KEYS THEN StatusOf(outcome) ELSE 0,
                            !.sent = Bool(PINATA_KEYS)],
                        "bool", Bool(UnpinReturns(PINATA_KEYS, outcome)))]
    /\ UNCHANGED <<coreVars, PINATA_KEYS, ua, peer, main_model>>

\* 'if confirm.lower() == "yes"', accepting every answer except no
ScriptConfirmedUnlessNo(answer) == Lower(answer) # "no"

\* cleanup_pinata.py: 'if confirm.lower() == "yes"'
ScriptConfirmed(answer) == Lower(answer) = "yes"

\* main.py cleanup_pinata: 'if not confirm' raises 400
EndpointConfirmed(confirm) == confirm = "true"

\* unpin_all is entered
EnterUnpinAll(caller, given) ==
    [NoUnpinAll EXCEPT !.pc = "list", !.caller = caller, !.given = given]

\* The caller refuses: 400 from the endpoint, "Cleanup cancelled" from the
\* script
Refused(caller, given) ==
    [NoUnpinAll EXCEPT !.caller = caller, !.given = given,
                       !.result = "rejected",
                       !.status = IF caller = "endpoint" THEN 400 ELSE 0]

\* POST /api/admin/cleanup-pinata with the form field confirm
cleanup_pinata(confirm) ==
    /\ AllIdle
    /\ ua.pc = "idle"
    /\ ua' = IF EndpointConfirmed(confirm) THEN EnterUnpinAll("endpoint", confirm)
             ELSE Refused("endpoint", confirm)
    /\ UNCHANGED <<coreVars, hs, PINATA_KEYS, pinned, peer, main_model>>

\* python cleanup_pinata.py with the answer typed at the prompt
cleanup_script(answer) ==
    /\ AllIdle
    /\ ua.pc = "idle"
    /\ ua' = IF ScriptConfirmed(answer) THEN EnterUnpinAll("script", answer)
             ELSE Refused("script", answer)
    /\ UNCHANGED <<coreVars, hs, PINATA_KEYS, pinned, peer, main_model>>

\* unpin_all returns its tallies; the endpoint answers 200
UnpinAllReturns(u) ==
    [u EXCEPT !.pc = "idle", !.result = "done",
              !.status = IF u.caller = "endpoint" THEN 200 ELSE 0]

\* Lines 266-270: the list is fetched; an empty list ends the call
ua_list(outcome) ==
    /\ ua.pc = "list"
    /\ LET rows == list_pinned_files(PINATA_KEYS, pinned, outcome) IN
       ua' = IF rows = <<>> THEN UnpinAllReturns(ua)
             ELSE [ua EXCEPT !.pc = "loop", !.rows = rows, !.i = 1]
    /\ UNCHANGED <<coreVars, hs, PINATA_KEYS, pinned, peer, main_model>>

\* The loop leaving after the first unpin that fails
RowAfterStopOnFailure(u, ok) == IF ok THEN u.i + 1 ELSE Len(u.rows) + 1

\* 'for file in pinned_files': the row after this one, whatever happened
RowAfter(u, ok) == u.i + 1

\* Lines 277-283, one row: a row without 'ipfs_pin_hash' is passed over,
\* the id of any other row is handed to unpin_file and counted
ua_row(outcome) ==
    /\ ua.pc = "loop"
    /\ LET ipfs_hash == ua.rows[ua.i].ipfs_pin_hash
           ok == UnpinReturns(PINATA_KEYS, outcome)
           u == IF ipfs_hash = NoHash
                THEN [ua EXCEPT !.i = RowAfter(ua, TRUE)]
                ELSE [ua EXCEPT
                        !.i = RowAfter(ua, ok),
                        !.attempts = Append(@, ipfs_hash),
                        !.success_count = IF ok THEN @ + 1 ELSE @,
                        !.failed_hashes = IF ok THEN @ ELSE Append(@, ipfs_hash)]
       IN /\ ipfs_hash = NoHash => outcome = "ok200"
          /\ pinned' = IF ipfs_hash # NoHash /\ PINATA_KEYS
                       THEN PinsAfterUnpin(pinned, ipfs_hash, outcome)
                       ELSE pinned
          /\ ua' = IF u.i > Len(u.rows) THEN UnpinAllReturns(u) ELSE u
    /\ UNCHANGED <<coreVars, hs, PINATA_KEYS, peer, main_model>>

\* An account at the provider, with or without the credentials in .env
InitPin ==
    /\ IPFS_GATEWAY = DEFAULT_GATEWAY
    /\ handlers = {"h1"}
    /\ registry = <<>>
    /\ regFile = <<>>
    /\ loaded_models = <<>>
    /\ files = [p \in CachePaths |-> NoFile]
    /\ hs = [h \in Handlers |-> NoCall]
    /\ nextObj = 1
    /\ PINATA_KEYS \in BOOLEAN
    /\ pinned \in PinLists
    /\ ua = NoUnpinAll
    /\ peer = NoPeer
    /\ main_model = NoModel

\* What is typed at the prompt of the script, and the form field confirm
Answers == {"yes", "YES", "no", "y", ""}

NextPin ==
    \/ \E h \in Handlers, c \in Cids, o \in ProviderOutcomes : unpin_file(h, c, o)
    \/ \E c \in {"true", "false"} : cleanup_pinata(c)
    \/ \E a \in Answers : cleanup_script(a)
    \/ \E o \in ProviderOutcomes : ua_list(o)
    \/ \E o \in ProviderOutcomes : ua_row(o)

SpecPin == InitPin /\ [][NextPin]_vars

----------------------------------------------------------------------------
(* main.py: update_model, delete_model, get_model_details *)

\* The ownership test letting every wallet address through
IsOwnerAlways(model_info, wallet_address) == TRUE

\* model_info.get('creator', '').lower() == wallet_address.lower()
IsOwner(model_info, wallet_address) ==
    Lower(model_info.creator) = Lower(wallet_address)

\* The status of a request that has come to call this method of
\* model_manager: an AttributeError leaves the handler when the class does
\* not define it
MethodStatus(method) == IF method \in ModelManagerMethods THEN 200 ELSE 500

\* A request with a wallet address begins in handler h
Request(h, op, model_id, wallet_address) ==
    [Begin(h, op, model_id) EXCEPT
        !.wallet = wallet_address,
        !.owned = /\ get_model_info(registry, model_id) # <<>>
                  /\ IsOwner(get_model_info(registry, model_id)[1],
                             wallet_address)]

\* PUT /api/models/{model_id}.  model_info is the record of the registry
\* itself, so the fields are assigned in the registry in memory (lines
\* 343-363) before model_manager.update_model is called (line 366).
update_model(h, model_id, wallet_address, name) ==
    /\ Idle(h)
    /\ LET c == [Request(h, "update_model", model_id, wallet_address)
                   EXCEPT !.patch = name]
           info == get_model_info(registry, model_id)
       IN IF info = <<>>
          THEN /\ hs' = [hs EXCEPT ![h] = Return(c, "http", 404)]
               /\ UNCHANGED registry
          ELSE IF ~ IsOwner(info[1], wallet_address)
          THEN /\ hs' = [hs EXCEPT ![h] = Return(c, "http", 403)]
               /\ UNCHANGED registry
          ELSE /\ registry' = [registry EXCEPT ![c.ri].name =
                                  IF name # "" THEN name ELSE @]
               /\ hs' = [hs EXCEPT ![h] =
                            Return(c, "http", MethodStatus("update_model"))]
    /\ UNCHANGED <<IPFS_GATEWAY, handlers, regFile, loaded_models, files,
                   nextObj, envVars>>

\* DELETE /api/models/{model_id}: the content id is unpinned (lines
\* 392-401), then model_manager.delete_model is called (line 404)
delete_model(h, model_id, wallet_address, outcome) ==
    /\ Idle(h)
    /\ ua.pc = "idle"
    /\ LET c == Request(h, "delete_model", model_id, wallet_address)
           info == get_model_info(registry, model_id)
       IN IF info = <<>>
          THEN /\ hs' = [hs EXCEPT ![h] = Return(c, "http", 404)]
               /\ UNCHANGED pinned
          ELSE IF ~ IsOwner(info[1], wallet_address)
          THEN /\ hs' = [hs EXCEPT ![h] = Return(c, "http", 403)]
               /\ UNCHANGED pinned
          ELSE IF info[1].ipfs_hash # NoHash /\ PINATA_KEYS
          THEN /\ pinned' = PinsAfterUnpin(pinned, info[1].ipfs_hash, outcome)
               /\ hs' = [hs EXCEPT ![h] =
                            Return([c EXCEPT !.http = StatusOf(outcome),
                                             !.sent = 1],
                                   "http", MethodStatus("delete_model"))]
          ELSE /\ hs' = [hs EXCEPT ![h] =
                            Return(c, "http", MethodStatus("delete_model"))]
               /\ UNCHANGED pinned
    /\ UNCHANGED <<coreVars, PINATA_KEYS, ua, peer, main_model>>

\* GET /api/models/{model_id}: 404 when the content id is not in the pin
\* list the provider answers with; else the gateway URLs are assigned to
\* the record, which is the record of the registry in memory
get_model_details(h, model_id, outcome) ==
    /\ Idle(h)
    /\ LET c == Begin(h, "get_model_details", model_id)
           info == get_model_info(registry, model_id)
       IN IF info = <<>>
          THEN /\ hs' = [hs EXCEPT ![h] = Return(c, "http", 404)]
               /\ UNCHANGED registry
          ELSE IF info[1].ipfs_hash = NoHash
          THEN /\ hs' = [hs EXCEPT ![h] = Return(c, "http", 200)]
               /\ UNCHANGED registry
          ELSE IF /\ PINATA_KEYS
                  /\ ~ \E n \in 1..Len(list_pinned_files(PINATA_KEYS, pinned, outcome)) :
                         list_pinned_files(PINATA_KEYS, pinned, outcome)[n].ipfs_pin_hash
                             = info[1].ipfs_hash
          THEN /\ hs' = [hs EXCEPT ![h] =
                            Return([c EXCEPT !.http = StatusOf(outcome),
                                             !.sent = 1],
                                   "http", 404)]
               /\ UNCHANGED registry
          ELSE /\ registry' = [registry EXCEPT ![c.ri].gateway_url =
                                  IPFS_GATEWAY \o info[1].ipfs_hash]
               /\ hs' = [hs EXCEPT ![h] =
                            Return([c EXCEPT !.http = IF PINATA_KEYS
                                                      THEN StatusOf(outcome)
                                                      ELSE 0,
                                             !.sent = Bool(PINATA_KEYS)],
                                   "http", 200)]
    /\ UNCHANGED <<IPFS_GATEWAY, handlers, regFile, loaded_models, files,
                   nextObj, envVars>>

\* The wallet addresses of the requests, and the names they patch in
Wallets == {"0xAB", "0xcd"}
Names == {"", "n1"}

\* Pin lists of the account the records were uploaded with
SeedPins == { << Row("Qm1"), Row("Qm2") >> }

\* A server that starts with a registry file
InitOwner ==
    /\ IPFS_GATEWAY = DEFAULT_GATEWAY
    /\ handlers = {"h1"}
    /\ registry \in SeedRegistries
    /\ regFile = registry
    /\ loaded_models = <<>>
    /\ files = [p \in CachePaths |-> NoFile]
    /\ hs = [h \in Handlers |-> NoCall]
    /\ nextObj = 1
    /\ PINATA_KEYS \in BOOLEAN
    /\ pinned \in SeedPins
    /\ ua = NoUnpinAll
    /\ peer = NoPeer
    /\ main_model = NoModel

\* The requests that read or change a record, with a provider that answers
\* 200 or refuses (or, for the pin list, cannot be reached), and the calls
\* that fill the caches from gateways that answer or refuse, without errors
\* in mid-stream
NextOwner ==
    \/ \E h \in Handlers, i \in Ids, w \in Wallets, n \in Names :
          update_model(h, i, w, n)
    \/ \E h \in Handlers, i \in Ids, w \in Wallets, o \in {"ok200", "non200"} :
          delete_model(h, i, w, o)
    \/ \E h \in Handlers, i \in Ids, o \in {"ok200", "conn_error"} :
          get_model_details(h, i, o)
    \/ \E h \in Handlers, i \in Ids : purchase_model(h, i)
    \/ \E h \in Handlers, i \in Ids : load_model(h, i)
    \/ \E h \in Handlers, o \in {"ok200", "non200"} : df_try(h, o)
    \/ \E h \in Handlers : df_stream(h, "chunk")
    \/ \E h \in Handlers : lm_load(h, "ok")

SpecOwner == InitOwner /\ [][NextOwner]_vars

----------------------------------------------------------------------------
(* A second ModelManager instance on the same models_registry.json *)

\* ModelManager(): _load_registry reads the registry file as it is now
peer_start ==
    /\ ~ peer.started
    /\ peer' = [peer EXCEPT !.started = TRUE, !.registry = regFile]
    /\ UNCHANGED <<coreVars, hs, PINATA_KEYS, pinned, ua, main_model>>

\* add_model of the second instance: it appends to the registry it holds
\* and writes that registry to the file
peer_add_model(model_info, save) ==
    /\ peer.started
    /\ Len(peer.registry) < MaxModels
    /\ peer' = [peer EXCEPT
                  !.registry = Append(@, Stamp(model_info)),
                  !.added = IF save = "ok" THEN Append(@, model_info.id) ELSE @]
    /\ regFile' = IF save = "ok" THEN peer'.registry ELSE regFile
    /\ UNCHANGED <<IPFS_GATEWAY, handlers, registry, loaded_models, files,
                   nextObj, hs, PINATA_KEYS, pinned, ua, main_model>>

\* The server, and a second process that constructs a ModelManager of its
\* own at any moment
NextWriters ==
    \/ \E h \in Handlers, r \in NewRecords, s \in SaveOutcomes : add_model(h, r, s)
    \/ peer_start
    \/ \E r \in NewRecords, s \in SaveOutcomes : peer_add_model(r, s)

SpecWriters == Init /\ [][NextWriters]_vars

----------------------------------------------------------------------------
(* IPFSService with and without the credentials *)

\* upload_file sending its request whether or not the credentials are set
UploadAsksWithoutKeys(keys, file_exists) == file_exists

\* upload_file posts the file when the credentials are set (lines 44-46)
\* and the file exists (lines 51-53); upload_json has no file to look for
UploadAsks(keys, file_exists) == keys /\ file_exists

\* The pin list after pinFileToIPFS or pinJSONToIPFS of content cid had
\* this outcome: the content is pinned once
PinsAfterPin(pins, cid, outcome) ==
    IF outcome \in {"ok200", "lost_reply"}
       /\ ~ \E n \in 1..Len(pins) : pins[n].ipfs_pin_hash = cid
    THEN Append(pins, Row(cid)) ELSE pins

\* An upload of content cid returns: the 'IpfsHash' of the answer for
\* status 200, else None
UploadReturns(h, op, cid, asks, outcome) ==
    LET c == [Begin(h, op, "") EXCEPT
                 !.sent = Bool(asks),
                 !.http = IF asks THEN StatusOf(outcome) ELSE 0]
    IN  /\ pinned' = IF asks THEN PinsAfterPin(pinned, cid, outcome) ELSE pinned
        /\ hs' = [hs EXCEPT ![h] =
                     IF asks /\ StatusOf(outcome) = 200
                     THEN [Return(c, "cid", 1) EXCEPT !.hash = cid]
                     ELSE Return(c, "none", 0)]

\* ipfs_service.upload_file(file_path) of a file whose content has the id cid
upload_file(h, cid, file_exists, outcome) ==
    /\ Idle(h)
    /\ ua.pc = "idle"
    /\ Len(pinned) < MaxPins
    /\ UploadReturns(h, "upload_file", cid,
                     UploadAsks(PINATA_KEYS, file_exists), outcome)
    /\ UNCHANGED <<coreVars, PINATA_KEYS, ua, peer, main_model>>

\* ipfs_service.upload_json(data) of data whose content has the id cid
upload_json(h, cid, outcome) ==
    /\ Idle(h)
    /\ ua.pc = "idle"
    /\ Len(pinned) < MaxPins
    /\ UploadReturns(h, "upload_json", cid,
                     UploadAsks(PINATA_KEYS, TRUE), outcome)
    /\ UNCHANGED <<coreVars, PINATA_KEYS, ua, peer, main_model>>

\* ipfs_service.list_pinned_files(), called on its own; the call returns
\* the rows, of which the handler keeps the number
list_files(h, outcome) ==
    /\ Idle(h)
    /\ hs' = [hs EXCEPT ![h] =
                 Return([Begin(h, "list_pinned_files", "") EXCEPT
                            !.sent = Bool(PINATA_KEYS),
                            !.http = IF PINATA_KEYS THEN StatusOf(outcome) ELSE 0],
                        "list",
                        Len(list_pinned_files(PINATA_KEYS, pinned, outcome)))]
    /\ UNCHANGED <<coreVars, envVars>>

\* A process with one record, with or without the credentials in .env, and
\* an account that has or has not the content of the record pinned
InitKeys ==
    /\ IPFS_GATEWAY = DEFAULT_GATEWAY
    /\ handlers = {"h1"}
    /\ registry = << [id |-> "m1", ipfs_hash |-> "Qm1", model_type |-> "keras",
                      downloads |-> 0, uploaded_at |-> Now,
                      creator |-> "0xAb", name |-> "n0", gateway_url |-> ""] >>
    /\ regFile = registry
    /\ loaded_models = <<>>
    /\ files = [p \in CachePaths |-> NoFile]
    /\ hs = [h \in Handlers |-> NoCall]
    /\ nextObj = 1
    /\ PINATA_KEYS \in BOOLEAN
    /\ pinned \in { <<>>, << Row("Qm1") >> }
    /\ ua = NoUnpinAll
    /\ peer = NoPeer
    /\ main_model = NoModel

NextKeys ==
    \/ \E h \in Handlers, c \in Cids, e \in BOOLEAN, o \in ProviderOutcomes :
          upload_file(h, c, e, o)
    \/ \E h \in Handlers, c \in Cids, o \in ProviderOutcomes : upload_json(h, c, o)
    \/ \E h \in Handlers, c \in Cids, o \in ProviderOutcomes : unpin_file(h, c, o)
    \/ \E h \in Handlers, o \in ProviderOutcomes : list_files(h, o)
    \/ \E h \in Handlers, i \in Ids : download_model(h, i)
    \/ \E h \in Handlers, o \in TryOutcomes : df_try(h, o)
    \/ \E h \in Handlers, e \in StreamEvents : df_stream(h, e)

SpecKeys == InitKeys /\ [][NextKeys]_vars

----------------------------------------------------------------------------
(* main.py: predict, and the event loop the handlers run on *)

\* Every handler a coroutine of its own thread: nothing waits for another
LoopFreeAlways(h) == TRUE

\* The handlers are coroutines ('async def') on one event loop: handler h
\* runs only while no other handler is between two of its awaits.  The
\* awaits of predict are the parsing of the form, before its body, and
\* 'await file.read()' (line 492), after load_model has returned.
LoopFree(h) ==
    \A g \in handlers \ {h} : hs[g].pc \in {"idle", "accepted", "pr_tail"}

\* What the rest of predict does with the upload and the object: a
\* prediction, or an exception (the upload cannot be opened as an image,
\* the object cannot predict on it)
PredictOutcomes == {"ok", "predict_error"}

\* POST /api/predict has arrived: the form is parsed, the body of the
\* handler has not run yet
predict_accept(h, model_id, image) ==
    /\ Idle(h)
    /\ hs' = [hs EXCEPT ![h] = [Begin(h, "predict", model_id) EXCEPT
                                   !.pc = "accepted", !.img = image]]
    /\ UNCHANGED <<coreVars, envVars>>

\* Lines 466-476: 400 for an upload that is not an image, else
\* model_manager.load_model(model_id)
predict_run(h) ==
    /\ h \in handlers
    /\ hs[h].pc = "accepted"
    /\ LoopFree(h)
    /\ nextObj <= MaxObjects
    /\ LET c == [hs[h] EXCEPT !.ri = ModelIndex(registry, hs[h].id)] IN
       IF ~ c.img
       THEN /\ hs' = [hs EXCEPT ![h] = [c EXCEPT !.pc = "idle", !.ri = 0,
                                                 !.resp = 400,
                                                 !.detail = "not_an_image"]]
            /\ UNCHANGED <<registry, loaded_models, nextObj>>
       ELSE EnterLoadModel(h, c)
    /\ UNCHANGED <<IPFS_GATEWAY, handlers, regFile, files>>
    /\ UNCHANGED envVars

\* 'model_source' of lines 540-544; "raised" when get_model_info returns
\* None and .get is called on it
ModelSource(models, fs, model_id) ==
    IF is_model_cached(models, fs, model_id) THEN "cache"
    ELSE IF get_model_info(models, model_id) = <<>> THEN "raised"
    ELSE IF get_model_info(models, model_id)[1].ipfs_hash # NoHash THEN "ipfs"
    ELSE "memory"

\* The response of predict: the object that predicts is the one load_model
\* returned, or the default model when it returned None (lines 478-482);
\* with neither, HTTPException(503) is raised inside the try and the
\* 'except Exception' of line 562 turns it, as every other exception, into
\* 500
Respond(c, dflt, source, outcome) ==
    LET obj == IF c.kind = "handle" THEN c.val ELSE dflt IN
    IF obj = NoModel
    THEN [c EXCEPT !.pc = "idle", !.resp = 500, !.detail = "HTTPException_503"]
    ELSE IF outcome # "ok"
    THEN [c EXCEPT !.pc = "idle", !.resp = 500, !.detail = "predict_error"]
    ELSE IF source = "raised"
    THEN [c EXCEPT !.pc = "idle", !.resp = 500, !.detail = "AttributeError"]
    ELSE [c EXCEPT !.pc = "idle", !.resp = 200, !.served = obj,
                   !.source = source]

\* Lines 478-565, after load_model has returned
predict_tail(h, outcome) ==
    /\ h \in handlers
    /\ hs[h].pc = "pr_tail"
    /\ LoopFree(h)
    /\ hs' = [hs EXCEPT ![h] =
                 Respond(hs[h], main_model,
                         ModelSource(registry, files, hs[h].id), outcome)]
    /\ UNCHANGED <<coreVars, envVars>>

\* The server with one record, with or without unet_brain_tumor_final.keras
\* next to main.py, serving two requests at a time
InitLoop ==
    /\ IPFS_GATEWAY = DEFAULT_GATEWAY
    /\ handlers = Handlers
    /\ registry = << [id |-> "m1", ipfs_hash |-> "Qm1", model_type |-> "keras",
                      downloads |-> 0, uploaded_at |-> Now,
                      creator |-> "0xAb", name |-> "n0", gateway_url |-> ""] >>
    /\ regFile = registry
    /\ loaded_models = <<>>
    /\ files = [p \in CachePaths |-> NoFile]
    /\ hs = [h \in Handlers |-> NoCall]
    /\ nextObj = 1
    /\ PINATA_KEYS = TRUE
    /\ pinned = <<>>
    /\ ua = NoUnpinAll
    /\ peer = NoPeer
    /\ main_model \in {NoModel, DefaultModel}

NextLoop ==
    \/ \E h \in Handlers, i \in Ids, b \in BOOLEAN : predict_accept(h, i, b)
    \/ \E h \in Handlers : predict_run(h)
    \/ \E h \in Handlers, o \in TryOutcomes : df_try(h, o)
    \/ \E h \in Handlers, e \in StreamEvents : df_stream(h, e)
    \/ \E h \in Handlers, o \in LoadOutcomes : lm_load(h, o)
    \/ \E h \in Handlers, o \in PredictOutcomes : predict_tail(h, o)

SpecLoop == InitLoop /\ [][NextLoop]_vars

----------------------------------------------------------------------------
Next ==
    \/ \E h \in Handlers, r \in NewRecords, s \in SaveOutcomes : add_model(h, r, s)
    \/ \E h \in Handlers, i \in Ids : download_model(h, i)
    \/ \E h \in Handlers, i \in Ids : purchase_model(h, i)
    \/ \E h \in Handlers, i \in Ids : load_model(h, i)
    \/ \E h \in Handlers, o \in TryOutcomes : df_try(h, o)
    \/ \E h \in Handlers, e \in StreamEvents : df_stream(h, e)
    \/ \E h \in Handlers, o \in LoadOutcomes : lm_load(h, o)
    \/ \E h \in Handlers, i \in Ids : unload_model(h, i)

Spec == Init /\ [][Next]_vars

\* The calls that resolve an artifact, and the two that empty the caches
NextFetch ==
    \/ \E h \in Handlers, i \in Ids : download_model(h, i)
    \/ \E h \in Handlers, i \in Ids : load_model(h, i)
    \/ \E h \in Handlers, o \in TryOutcomes : df_try(h, o)
    \/ \E h \in Handlers, e \in StreamEvents : df_stream(h, e)
    \/ \E h \in Handlers, o \in LoadOutcomes : lm_load(h, o)
    \/ \E h \in Handlers, i \in Ids : unload_model(h, i)
    \/ \E h \in Handlers : clear_cache(h)

SpecFetch == InitFetch /\ [][NextFetch]_vars

\* The calls that resolve an artifact
NextConc ==
    \/ \E h \in Handlers, i \in Ids : download_model(h, i)
    \/ \E h \in Handlers, i \in Ids : load_model(h, i)
    \/ \E h \in Handlers, o \in TryOutcomes : df_try(h, o)
    \/ \E h \in Handlers, e \in StreamEvents : df_stream(h, e)
    \/ \E h \in Handlers, o \in LoadOutcomes : lm_load(h, o)

SpecConc == InitConc /\ [][NextConc]_vars

----------------------------------------------------------------------------
(* Properties *)

IsFetchCall(c) == c.op \in {"download_model", "load_model", "purchase_model"}

\* The registry record the calls on model_id work with
Info(model_id) == get_model_info(registry, model_id)[1]

\* C1: a call that found no cache file for its id and ended in failure
\* because every gateway candidate failed leaves no file behind:
\* is_model_cached(id) is false when it has returned.
C1_FailedFetchKeepsNothing ==
    \A h \in handlers :
        ( /\ hs[h].pc = "idle"
          /\ IsFetchCall(hs[h])
          /\ hs[h].cold
          /\ hs[h].df = "false" )
        => ~ is_model_cached(registry, files, hs[h].id)

\* C2: whenever the file at the cache path of an id exists, it holds the
\* complete content of the record's content id, also while a fetch is in
\* progress in another handler.
C2_CachedFileIsComplete ==
    \A i \in Ids :
        is_model_cached(registry, files, i)
        => files[get_cached_model_path(registry, i)[1]].data = Body(Info(i).ipfs_hash)

\* C3: a purchase request that returned an error response leaves the
\* 'downloads' counter of the record, in memory and on disk, as it was
\* before the request.
C3_FailedPurchaseKeepsCounter ==
    \A h \in handlers :
        ( /\ hs[h].pc = "idle"
          /\ hs[h].op = "purchase_model"
          /\ hs[h].val # 200 )
        => /\ Downloads(registry, hs[h].id) = hs[h].dlMem
           /\ Downloads(regFile, hs[h].id) = hs[h].dlFile

\* C4: no two records of the registry have the same id (add_model rejects
\* a record whose id is already present).
C4_RegistryIdsUnique ==
    \A i, j \in 1..Len(registry) :
        i # j => registry[i].id # registry[j].id

Registered(model_id) == \E k \in 1..Len(registry) : registry[k].id = model_id

\* Handler h, idle, makes a call of op on model_id in this step
Calls(h, op, model_id) ==
    /\ hs[h].pc = "idle"
    /\ hs'[h] # hs[h]
    /\ hs'[h].op = op
    /\ hs'[h].id = model_id

\* C5: load_model of an id that no registry record has returns None at
\* once, without entering the fetch, and leaves the disk cache and the
\* memory cache as they were.
C5_UnregisteredLoad ==
    [][ \A h \in Handlers, i \in Ids :
          (Calls(h, "load_model", i) /\ ~ Registered(i))
          => /\ hs'[h].pc = "idle"
             /\ hs'[h].kind = "none"
             /\ hs'[h].tried = <<>>
             /\ hs'[h].df = "none"
             /\ files' = files
             /\ loaded_models' = loaded_models ]_vars

C5_Witness ==
    \E h \in handlers :
        /\ hs[h].pc = "idle"
        /\ hs[h].op = "load_model"
        /\ ~ Registered(hs[h].id)
        /\ hs[h].kind = "none"
        /\ DOMAIN loaded_models # {}
        /\ \E p \in CachePaths : files[p].exists

\* C6: when load_model(id) found the id in neither cache and returned an
\* object, it made one fetch that completed the cache file and stored the
\* object; a second load_model(id) right after it returns the same object
\* at once, requests no gateway and changes neither cache, and the id is
\* then in loaded_models and in the disk cache.
C6_SecondLoadIsMemoryHit ==
    [][ \A h \in Handlers, i \in Ids :
          ( /\ hs[h].op = "load_model" /\ hs[h].id = i
            /\ hs[h].cold /\ hs[h].kind = "handle"
            /\ Calls(h, "load_model", i) )
          => /\ hs[h].df = "true"
             /\ hs[h].populated
             /\ hs'[h].pc = "idle"
             /\ hs'[h].kind = "handle"
             /\ hs'[h].val = hs[h].val
             /\ hs'[h].tried = <<>>
             /\ hs'[h].df = "none"
             /\ ~ hs'[h].populated
             /\ files' = files
             /\ loaded_models' = loaded_models
             /\ i \in DOMAIN loaded_models'
             /\ loaded_models'[i].obj = hs[h].val
             /\ is_model_cached(registry', files', i)
             /\ files'[get_cached_model_path(registry', i)[1]].data
                    = Body(get_model_info(registry', i)[1].ipfs_hash) ]_vars

C6_Witness ==
    \E h \in handlers :
        /\ hs[h].pc = "idle"
        /\ hs[h].op = "load_model"
        /\ hs[h].again
        /\ hs[h].kind = "handle"
        /\ hs[h].id \in DOMAIN loaded_models
        /\ is_model_cached(registry, files, hs[h].id)

----------------------------------------------------------------------------
(* download_file: the gateway candidates *)

\* The file one gateway alone produces at a path that held no file: the
\* path is opened and the chunks of the body are written in their order
RECURSIVE StreamInto(_, _, _)
StreamInto(f, ipfs_hash, k) ==
    IF k > NChunks THEN f
    ELSE StreamInto(WriteAt(f, k, Chunk(ipfs_hash, k)), ipfs_hash, k + 1)

SingleGatewayFile(ipfs_hash) == StreamInto(OpenWb(NoFile), ipfs_hash, 1)

\* In this step the candidate that handler h streams delivers its last chunk
LastChunk(h) ==
    /\ hs[h].pc = "df_stream"
    /\ hs[h].k + 1 = NChunks
    /\ hs'[h] # hs[h]
    /\ hs'[h].failed = hs[h].failed

\* C7: when a candidate streams its whole body after any number of earlier
\* candidates failed (no connection, a status other than 200, or broken
\* after some chunks were written), download_file returns True and the
\* file at the destination is the file that gateway alone produces.
C7_FallbackSameFile ==
    [][ \A h \in Handlers :
          LastChunk(h)
          => /\ hs'[h].df = "true"
             /\ files'[hs[h].path] = SingleGatewayFile(hs[h].hash) ]_vars

C7_Witness ==
    \E h \in handlers :
        /\ hs[h].pc = "idle"
        /\ hs[h].op = "download_model"
        /\ hs[h].df = "true"
        /\ hs[h].val = 1
        /\ hs[h].partial
        /\ hs[h].failed >= 2
        /\ files[get_cached_model_path(registry, hs[h].id)[1]].data
               = Body(Info(hs[h].id).ipfs_hash)

NoRepeat(s) == \A a, b \in 1..Len(s) : a # b => s[a] # s[b]

\* The fallback gateways of lines 153-155, in the order they are listed
ListedFallbacks ==
    << "https://gateway.pinata.cloud/ipfs/", "https://ipfs.io/ipfs/",
       "https://cloudflare-ipfs.com/ipfs/" >>

IsFallback(g) == \E n \in 1..Len(ListedFallbacks) : ListedFallbacks[n] = g

\* C8: in one download_file call no URL is requested twice; a call makes
\* at most 4 requests, and at most 3 when the configured gateway is one of
\* the fallback gateways (the default is one of them).
C8_EachUrlOnce ==
    \A h \in handlers :
        /\ NoRepeat(hs[h].tried)
        /\ Len(hs[h].tried) <= Len(ListedFallbacks) + 1
        /\ IsFallback(IPFS_GATEWAY)
             => Len(hs[h].tried) <= Len(ListedFallbacks)

C8_Witness ==
    \E h \in handlers :
        /\ IPFS_GATEWAY = "https://ipfs.io/ipfs/"
        /\ hs[h].pc = "idle"
        /\ hs[h].df = "false"
        /\ Len(hs[h].tried) = Len(ListedFallbacks)
        /\ \E n \in 2..Len(hs[h].tried) :
               hs[h].tried[n] = "https://gateway.pinata.cloud/ipfs/"
                                    \o Info(hs[h].id).ipfs_hash

\* The configured gateway, then the listed fallbacks that differ from it
ConfiguredOrder(primary) ==
    <<primary>> \o SelectSeq(ListedFallbacks, LAMBDA g : g # primary)

\* C9: the URLs a download_file call requests are, in this order, the
\* configured gateway and then the listed fallbacks; a candidate is
\* requested only when all the candidates before it have failed; once a
\* candidate has delivered its whole body no further one is requested; and
\* the call returns False only when every candidate was requested and
\* failed.
C9_AttemptOrder ==
    /\ [](\A h \in handlers :
            LET c == hs[h]
                order == ConfiguredOrder(IPFS_GATEWAY)
            IN  /\ Len(c.tried) <= Len(order)
                /\ \A n \in 1..Len(c.tried) :
                       c.tried[n] = order[n] \o Info(c.id).ipfs_hash
                /\ c.pc = "df_try" => c.failed = Len(c.tried)
                /\ c.pc = "df_stream" => c.failed = Len(c.tried) - 1
                /\ c.df = "true" => c.failed = Len(c.tried) - 1
                /\ c.df = "false" => /\ c.failed = Len(c.tried)
                                     /\ Len(c.tried) = Len(order))
    /\ [][ \A h \in Handlers :
             (hs[h].df = "true" /\ hs[h].pc # "idle")
             => hs'[h].tried = hs[h].tried ]_vars

C9_Witness ==
    \E h \in handlers :
        /\ IPFS_GATEWAY = "https://my.gw/ipfs/"
        /\ hs[h].pc = "idle"
        /\ hs[h].df = "false"
        /\ hs[h].failed = Len(ListedFallbacks) + 1
        /\ hs[h].tried[1] = "https://my.gw/ipfs/" \o Info(hs[h].id).ipfs_hash

\* In this step a candidate of handler h fails
CandidateFails(h) ==
    /\ hs[h].pc \in {"df_try", "df_stream"}
    /\ hs'[h].failed = hs[h].failed + 1

\* C10: whatever a candidate does (a status other than 200, an error of
\* the connection, an error in the middle of the stream, an error of the
\* file system), download_file ends with True or False and with no
\* exception, and when a candidate fails and another one remains, the next
\* step of the call is the request to that one.
C10_FailuresAbsorbed ==
    [][ \A h \in Handlers :
          /\ hs'[h].df \in {"none", "true", "false"}
          /\ (CandidateFails(h) /\ hs[h].idx < Len(hs[h].cands))
             => /\ hs'[h].pc = "df_try"
                /\ hs'[h].idx = hs[h].idx + 1
                /\ hs'[h].cands = hs[h].cands
                /\ hs'[h].df = "none"
          /\ (CandidateFails(h) /\ hs[h].idx = Len(hs[h].cands))
             => hs'[h].df = "false" ]_vars

C10_Witness ==
    \E h \in handlers :
        /\ hs[h].pc = "lm_load"
        /\ hs[h].df = "true"
        /\ hs[h].partial
        /\ hs[h].failed = Len(ListedFallbacks)

----------------------------------------------------------------------------
(* unpin_file, unpin_all and their callers *)

HasCid(r) == r.ipfs_pin_hash # NoHash

\* The content ids of the rows that carry one, in the order of the rows
CidsOf(rows) ==
    [n \in 1..Len(SelectSeq(rows, HasCid)) |->
        SelectSeq(rows, HasCid)[n].ipfs_pin_hash]

\* C11: when unpin_all has returned, the number of successes and the
\* number of failed ids add up to the number of rows the provider listed,
\* rows without a content id included.
C11_TallyIsExhaustive ==
    ua.result = "done"
    => ua.success_count + Len(ua.failed_hashes) = Len(ua.rows)

\* C12: unpin_all asks the provider to unpin the content id of every listed
\* row, once and in the order of the list, whether the requests before it
\* succeeded or failed: while it loops it has asked for the ids of the rows
\* it has passed, and when it returns it has asked for all of them.
C12_EveryRowAttempted ==
    /\ ua.pc = "loop" => ua.attempts = CidsOf(SubSeq(ua.rows, 1, ua.i - 1))
    /\ ua.result = "done" => ua.attempts = CidsOf(ua.rows)

C12_Witness ==
    /\ ua.result = "done"
    /\ Len(ua.attempts) >= 2
    /\ ua.failed_hashes # <<>>
    /\ ua.failed_hashes[1] = ua.attempts[1]
    /\ ua.success_count >= 1

\* The confirmation the caller asks for was given
ExplicitConfirmation(u) ==
    \/ u.caller = "endpoint" /\ u.given = "true"
    \/ u.caller = "script" /\ u.given \in {"yes", "YES"}

\* C13: the endpoint and the script enter unpin_all only with the
\* confirmation (confirm = true, the answer yes); without it the call is
\* refused, no unpin request is made and the pin list stays as it was.
C13_CleanupNeedsConfirmation ==
    /\ [](( ua.caller # "none" /\ ~ ExplicitConfirmation(ua) )
          => /\ ua.pc = "idle"
             /\ ua.result = "rejected"
             /\ ua.attempts = <<>>)
    /\ [][ ( ua' # ua /\ ua'.caller # "none" /\ ~ ExplicitConfirmation(ua') )
           => pinned' = pinned ]_vars

C13_Witness ==
    /\ ua.result = "rejected"
    /\ ua.caller = "script"
    /\ ua.given = "y"
    /\ PINATA_KEYS
    /\ \E n \in 1..Len(pinned) : HasCid(pinned[n])

IsPinned(pins, cid) == \E n \in 1..Len(pins) : pins[n].ipfs_pin_hash = cid

\* In this step handler h calls unpin_file(cid) on its own
UnpinCall(h, cid) ==
    /\ hs[h].pc = "idle"
    /\ hs'[h].pc = "idle"
    /\ hs'[h].op = "unpin_file"
    /\ hs'[h].id = cid
    /\ ua' = ua
    /\ (hs'[h] # hs[h] \/ pinned' # pinned)

\* C14: unpin_file(cid) returns a boolean, True exactly when the provider
\* answered 200 to this call, False without credentials (and then nothing
\* is asked); it takes nothing but cid off the pin list, and a call for an
\* id that is not pinned, such as a second call after a first one that
\* succeeded, leaves the pin list as it is.
C14_UnpinIdempotent ==
    [][ \A h \in Handlers, c \in Cids :
          UnpinCall(h, c)
          => /\ hs'[h].kind = "bool"
             /\ hs'[h].val \in {0, 1}
             /\ hs'[h].val = 1 <=> hs'[h].http = 200
             /\ ~ PINATA_KEYS => (hs'[h].val = 0 /\ pinned' = pinned)
             /\ pinned' \in {pinned, RemovePin(pinned, c)}
             /\ ~ IsPinned(pinned, c) => pinned' = pinned
             /\ ( hs[h].op = "unpin_file" /\ hs[h].id = c /\ hs[h].val = 1 )
                => pinned' = pinned ]_vars

C14_Witness ==
    \E h \in handlers :
        /\ hs[h].pc = "idle"
        /\ hs[h].op = "unpin_file"
        /\ PINATA_KEYS
        /\ hs[h].http = 500
        /\ hs[h].val = 0
        /\ ~ IsPinned(pinned, hs[h].id)
        /\ pinned # <<>>

----------------------------------------------------------------------------
(* The requests of main.py on one record *)

\* In this step handler h, idle, serves a request of one of ops on model_id
Serves(h, ops, model_id) ==
    /\ hs[h].pc = "idle"
    /\ hs'[h] # hs[h]
    /\ hs'[h].op \in ops
    /\ hs'[h].id = model_id

\* Nothing of the registry, of the caches or of the pin list changes
NothingChanges ==
    /\ registry' = registry
    /\ regFile' = regFile
    /\ files' = files
    /\ loaded_models' = loaded_models
    /\ pinned' = pinned

\* Some file is in the disk cache, some object in the memory cache and
\* some content id in the pin list
SomethingToLose ==
    /\ \E p \in CachePaths : files[p].exists
    /\ DOMAIN loaded_models # {}
    /\ \E n \in 1..Len(pinned) : HasCid(pinned[n])

\* C15: an update or delete request for a record of the registry whose
\* wallet address is not the creator of the record (letter case aside) is
\* answered 403, asks nothing of the provider and changes nothing of the
\* registry in memory and on disk, of the caches and of the pin list.
C15_NonOwnerRejected ==
    [][ \A h \in Handlers, i \in Ids :
          ( /\ Registered(i)
            /\ Serves(h, {"update_model", "delete_model"}, i)
            /\ Lower(Info(i).creator) # Lower(hs'[h].wallet) )
          => /\ hs'[h].pc = "idle"
             /\ hs'[h].kind = "http"
             /\ hs'[h].val = 403
             /\ hs'[h].http = 0
             /\ NothingChanges ]_vars

C15_Witness ==
    \E h \in handlers :
        /\ hs[h].pc = "idle"
        /\ hs[h].op = "delete_model"
        /\ Registered(hs[h].id)
        /\ Lower(Info(hs[h].id).creator) # Lower(hs[h].wallet)
        /\ hs[h].val = 403
        /\ PINATA_KEYS
        /\ SomethingToLose

\* C16: when a delete request for a record made by its creator has been
\* served, no record of that id is in the registry, in memory and in the
\* registry file.
C16_DeleteRemovesRecord ==
    \A h \in handlers :
        ( /\ hs[h].pc = "idle" /\ hs[h].op = "delete_model" /\ hs[h].owned )
        => /\ get_model_info(registry, hs[h].id) = <<>>
           /\ get_model_info(regFile, hs[h].id) = <<>>

\* C17: when an update request for a record made by its creator has been
\* served, it was answered 200, the record has the name the request asked
\* for, and the registry file holds what the registry in memory holds.
C17_OwnerUpdatePersists ==
    \A h \in handlers :
        ( /\ hs[h].pc = "idle" /\ hs[h].op = "update_model" /\ hs[h].owned )
        => /\ hs[h].val = 200
           /\ hs[h].patch # "" => Info(hs[h].id).name = hs[h].patch
           /\ regFile = registry

\* C18: an update, delete, purchase or details request for an id that no
\* record of the registry has is answered 404, requests no gateway, asks
\* nothing of the provider and changes nothing of the registry, of the
\* caches and of the pin list.
C18_AbsentIdNotFound ==
    [][ \A h \in Handlers, i \in Ids :
          ( /\ ~ Registered(i)
            /\ Serves(h, {"update_model", "delete_model", "purchase_model",
                          "get_model_details"}, i) )
          => /\ hs'[h].pc = "idle"
             /\ hs'[h].kind = "http"
             /\ hs'[h].val = 404
             /\ hs'[h].tried = <<>>
             /\ hs'[h].http = 0
             /\ NothingChanges ]_vars

C18_Witness ==
    \E h \in handlers :
        /\ hs[h].pc = "idle"
        /\ hs[h].op = "purchase_model"
        /\ ~ Registered(hs[h].id)
        /\ hs[h].val = 404
        /\ SomethingToLose

\* C19: when an operation that changes the registry (add_model, an update
\* by the owner, the counter increment of a purchase, a delete) has
\* completed, with success or with failure, the registry file holds what
\* the registry in memory holds.
C19_RegistryFileFollowsMemory ==
    \A h \in handlers :
        ( /\ hs[h].pc = "idle"
          /\ hs[h].op \in {"add_model", "update_model", "purchase_model",
                           "delete_model"} )
        => regFile = registry

InFile(model_id) == \E k \in 1..Len(regFile) : regFile[k].id = model_id

\* C20: when two writers of the registry file have each added a record and
\* their add_model calls have returned True, the registry file has a record
\* of both: no writer's save takes out what the other one saved.
C20_NoLostUpdate ==
    /\ \A h \in handlers :
          ( /\ hs[h].pc = "idle" /\ hs[h].op = "add_model" /\ hs[h].val = 1 )
          => InFile(hs[h].id)
    /\ \A n \in 1..Len(peer.added) : InFile(peer.added[n])

----------------------------------------------------------------------------
(* Two resolutions at a time *)

\* Handlers g and h both hold the file at one path open for writing
TwoWriters(g, h) ==
    /\ g # h
    /\ hs[g].fd = "open"
    /\ hs[h].fd = "open"
    /\ hs[g].path = hs[h].path

\* C21: at no time do two fetches of the same artifact hold the file at
\* its cache path open for writing at once.
C21_OneWriterPerPath ==
    \A g, h \in handlers : ~ TwoWriters(g, h)

\* The load_model calls of two predict requests for one id have both
\* returned an object, and both requests arrived while the id was in
\* neither cache
BothResolvedCold(g, h) ==
    /\ g # h
    /\ hs[g].op = "predict" /\ hs[h].op = "predict"
    /\ hs[g].id = hs[h].id
    /\ hs[g].cold /\ hs[h].cold
    /\ hs[g].pc \in {"pr_tail", "idle"} /\ hs[h].pc \in {"pr_tail", "idle"}
    /\ hs[g].kind = "handle" /\ hs[h].kind = "handle"

\* C22: when two requests of the server for the same cold id have both had
\* their load_model call return an object, it is the same object for both,
\* and it is the one loaded_models holds for the id.
C22_OneHandleForBoth ==
    \A g, h \in handlers :
        BothResolvedCold(g, h)
        => /\ hs[g].val = hs[h].val
           /\ hs[h].id \in DOMAIN loaded_models
           /\ loaded_models[hs[h].id].obj = hs[h].val

C22_Witness ==
    \E g, h \in handlers :
        /\ BothResolvedCold(g, h)
        /\ hs[g].pc = "idle" /\ hs[h].pc = "idle"
        /\ hs[g].resp = 200 /\ hs[h].resp = 200
        /\ hs[g].served = loaded_models[hs[h].id].obj

----------------------------------------------------------------------------
(* Records and their content ids *)

\* In this step a record is appended to the registry
Published == Len(registry') = Len(registry) + 1

\* C23: a record that has a content id keeps it in every step, and a record
\* appended to the registry has an id that no record had before.
C23_ContentIdSetOnce ==
    [][ /\ \A k \in 1..Len(registry) :
              (registry[k].ipfs_hash # NoHash /\ k <= Len(registry'))
              => registry'[k].ipfs_hash = registry[k].ipfs_hash
        /\ Published => ~ Registered(registry'[Len(registry')].id) ]_vars

\* C24: when no call is in flight, a cache file that is present holds the
\* complete content of the content id of its record, and an object that
\* load_model has just stored was read from that content.
C24_CacheFileIsContent ==
    AllIdle
    => /\ \A i \in Ids :
             is_model_cached(registry, files, i)
             => files[get_cached_model_path(registry, i)[1]].data
                    = Body(Info(i).ipfs_hash)
       /\ \A h \in handlers :
             (hs[h].op = "load_model" /\ hs[h].populated)
             => loaded_models[hs[h].id].data = Body(Info(hs[h].id).ipfs_hash)

----------------------------------------------------------------------------
(* The provider calls without credentials *)

ProviderCalls == {"upload_file", "upload_json", "unpin_file", "list_pinned_files"}

\* What each provider call returns when it gives up: None, False, []
GaveUp(c) ==
    CASE c.op \in {"upload_file", "upload_json"} -> c.kind = "none"
      [] c.op = "unpin_file" -> c.kind = "bool" /\ c.val = 0
      [] c.op = "list_pinned_files" -> c.kind = "list" /\ c.val = 0
      [] OTHER -> FALSE

----------------------------------------------------------------------------
(* What a caller learns of a failed resolution *)

\* The stage at which the load_model call of c ended
Stage(c) ==
    IF c.kind = "handle" THEN "resolved"
    ELSE IF ~ Registered(c.id) THEN "registry"
    ELSE IF c.df = "false" THEN "fetch"
    ELSE "materialize"

\* What the caller of c has in hand: what load_model returned, and the
\* status and the detail of the response of the request
Outcome(c) == <<c.kind, c.val, c.resp, c.detail>>

\* A predict request for an image that has been answered
Answered(c) == c.op = "predict" /\ c.pc = "idle" /\ c.img

\* C26: two answered requests whose resolutions failed at different stages
\* (id not in the registry, every gateway failed, the loader failed) have
\* different outcomes, and a request whose resolution failed is not
\* answered with a prediction.
C26_FailureNamesStage ==
    /\ \A g, h \in handlers :
          ( /\ Answered(hs[g]) /\ Answered(hs[h])
            /\ Stage(hs[g]) # "resolved" /\ Stage(hs[h]) # "resolved"
            /\ Stage(hs[g]) # Stage(hs[h]) )
          => Outcome(hs[g]) # Outcome(hs[h])
    /\ \A h \in handlers :
          (Answered(hs[h]) /\ Stage(hs[h]) # "resolved") => hs[h].resp # 200

----------------------------------------------------------------------------
(* Records without a content id *)

\* The record get_model_info finds for model_id has no ipfs_hash
MetadataOnly(model_id) ==
    /\ Registered(model_id)
    /\ get_model_info(registry, model_id)[1].ipfs_hash = NoHash

\* C27: load_model and download_model of a registered id whose record has
\* no ipfs_hash, and which is in neither the memory cache nor the disk
\* cache, fail at once: no gateway is requested, and the disk cache and the
\* memory cache are left as they were.
C27_NoHashNoFetch ==
    [][ \A h \in Handlers, i \in Ids :
          ( /\ Calls(h, "load_model", i) \/ Calls(h, "download_model", i)
            /\ MetadataOnly(i)
            /\ i \notin DOMAIN loaded_models
            /\ ~ is_model_cached(registry, files, i) )
          => /\ hs'[h].pc = "idle"
             /\ \/ hs'[h].op = "load_model" /\ hs'[h].kind = "none"
                \/ /\ hs'[h].op = "download_model"
                   /\ hs'[h].kind = "bool" /\ hs'[h].val = 0
             /\ hs'[h].tried = <<>>
             /\ hs'[h].df = "none"
             /\ files' = files
             /\ loaded_models' = loaded_models ]_vars

C27_Witness ==
    \E h \in handlers :
        /\ hs[h].pc = "idle"
        /\ hs[h].op = "download_model"
        /\ MetadataOnly(hs[h].id)
        /\ hs[h].cold
        /\ hs[h].kind = "bool" /\ hs[h].val = 0
        /\ hs[h].tried = <<>>

----------------------------------------------------------------------------
(* The disk cache across a restart of the process *)

\* The process ends and starts again: ModelManager.__init__ makes
\* loaded_models empty and reads the registry from models_registry.json;
\* the files of MODEL_CACHE_DIR stay (mkdir(exist_ok=True))
restart ==
    /\ \A h \in handlers : hs[h].pc = "idle"
    /\ loaded_models' = <<>>
    /\ registry' = regFile
    /\ hs' = [h \in Handlers |-> NoCall]
    /\ UNCHANGED <<IPFS_GATEWAY, handlers, regFile, files, nextObj>>
    /\ UNCHANGED envVars

\* Downloads and loads with loaders that read every complete file, and
\* restarts between the calls
NextDisk ==
    \/ \E h \in Handlers, i \in Ids : download_model(h, i)
    \/ \E h \in Handlers, i \in Ids : load_model(h, i)
    \/ \E h \in Handlers, o \in TryOutcomes : df_try(h, o)
    \/ \E h \in Handlers, e \in StreamEvents : df_stream(h, e)
    \/ \E h \in Handlers : lm_load(h, "ok")
    \/ restart

SpecDisk == InitFetch /\ [][NextDisk]_vars

\* The record of model_id names a type load_model has a loader for
Loadable(model_id) ==
    /\ Registered(model_id)
    /\ get_model_info(registry, model_id)[1].model_type \in SupportedTypes

\* C28: load_model of a registered id that is not in the memory cache and
\* whose cache file is present requests no gateway and goes to the loader,
\* and the loader makes the object from the file, stores it under the id
\* and load_model returns it.
C28_DiskHitMaterializes ==
    [][ \A h \in Handlers, i \in Ids :
          /\ ( /\ Calls(h, "load_model", i)
               /\ Loadable(i)
               /\ i \notin DOMAIN loaded_models
               /\ is_model_cached(registry, files, i) )
             => /\ hs'[h].pc = "lm_load"
                /\ hs'[h].tried = <<>>
                /\ files' = files
          /\ ( /\ hs[h].pc = "lm_load" /\ hs'[h].pc = "idle"
               /\ hs[h].id = i /\ hs[h].df = "none"
               /\ Loadable(i) )
             => /\ hs'[h].kind = "handle"
                /\ i \in DOMAIN loaded_models'
                /\ loaded_models'[i].obj = hs'[h].val
                /\ files' = files ]_vars

----------------------------------------------------------------------------
(* The entries of loaded_models *)

\* A process whose registry file holds two records that can be loaded
InitLife ==
    /\ IPFS_GATEWAY = DEFAULT_GATEWAY
    /\ handlers = {"h1"}
    /\ registry =
            << [id |-> "m1", ipfs_hash |-> "Qm1", model_type |-> "keras",
                downloads |-> 0, uploaded_at |-> Now,
                creator |-> "0xAb", name |-> "n0", gateway_url |-> ""],
               [id |-> "m2", ipfs_hash |-> "Qm2", model_type |-> "pkl",
                downloads |-> 0, uploaded_at |-> Now,
                creator |-> "0xcd", name |-> "n0", gateway_url |-> ""] >>
    /\ regFile = registry
    /\ loaded_models = <<>>
    /\ files = [p \in CachePaths |-> NoFile]
    /\ hs = [h \in Handlers |-> NoCall]
    /\ nextObj = 1
    /\ PINATA_KEYS = TRUE
    /\ pinned = <<>>
    /\ ua = NoUnpinAll
    /\ peer = NoPeer
    /\ main_model = NoModel

\* The calls of ModelManager one after the other, and the update request
\* of main.py, which changes a record of the registry
NextLife ==
    \/ \E h \in Handlers, i \in Ids : download_model(h, i)
    \/ \E h \in Handlers, i \in Ids : load_model(h, i)
    \/ \E h \in Handlers, o \in {"non200", "ok200"} : df_try(h, o)
    \/ \E h \in Handlers, e \in {"chunk", "stream_error"} : df_stream(h, e)
    \/ \E h \in Handlers, o \in LoadOutcomes : lm_load(h, o)
    \/ \E h \in Handlers, i \in Ids : unload_model(h, i)
    \/ \E h \in Handlers : clear_cache(h)
    \/ \E h \in Handlers, i \in Ids : update_model(h, i, "0xcd", "n1")

SpecLife == InitLife /\ [][NextLife]_vars

\* Handler h returns from the loader in this step with the object it made
\* of model_id and stored
Materializes(h, model_id) ==
    /\ hs[h].pc = "lm_load"
    /\ hs[h].id = model_id
    /\ hs'[h].pc = "idle"
    /\ hs'[h].kind = "handle"
    /\ hs'[h].populated

\* C29: an entry of the memory cache appears only when a load_model of its
\* id returns from the loader with the object, which is the entry; an entry
\* that is present keeps its object through every step that does not remove
\* it; an entry is removed only by unload_model of its id or by clear_cache;
\* unload_model of an id that has no entry changes nothing, and unload_model
\* changes neither the disk cache nor the registry.
C29_EntryLifecycle ==
    [][ \A i \in Ids :
          /\ (i \notin DOMAIN loaded_models /\ i \in DOMAIN loaded_models')
             => \E h \in handlers : /\ Materializes(h, i)
                                    /\ loaded_models'[i].obj = hs'[h].val
          /\ (i \in DOMAIN loaded_models /\ i \in DOMAIN loaded_models')
             => loaded_models'[i] = loaded_models[i]
          /\ (i \in DOMAIN loaded_models /\ i \notin DOMAIN loaded_models')
             => \E h \in handlers : \/ Calls(h, "unload_model", i)
                                    \/ Calls(h, "clear_cache", "")
          /\ \A h \in handlers :
                Calls(h, "unload_model", i)
                => /\ files' = files
                   /\ registry' = registry
                   /\ regFile' = regFile
                   /\ i \notin DOMAIN loaded_models
                      => loaded_models' = loaded_models ]_vars

\* After two materializations and an update of a record, an entry is
\* present and the last call was an unload_model of an id that had none
C29_Witness ==
    \E h \in handlers :
        /\ hs[h].pc = "idle"
        /\ hs[h].op = "unload_model"
        /\ hs[h].id \notin DOMAIN loaded_models
        /\ DOMAIN loaded_models # {}
        /\ nextObj > 2
        /\ registry # regFile

----------------------------------------------------------------------------
(* clear_cache *)

\* C30: clear_cache leaves the cache directory empty, so that no id is
\* cached on disk, and leaves the memory cache empty, so that the next
\* load_model of any id fetches again; the registry is as it was.
C30_ClearReleasesAll ==
    [][ \A h \in Handlers :
          Calls(h, "clear_cache", "")
          => /\ \A p \in CachePaths : ~ files'[p].exists
             /\ \A i \in Ids : ~ is_model_cached(registry', files', i)
             /\ DOMAIN loaded_models' = {}
             /\ registry' = registry
             /\ regFile' = regFile ]_vars

----------------------------------------------------------------------------
(* download_model on a cache directory that outlives the registry in memory *)

\* Records callers of add_model register under the id m2, with and without
\* a content id
EnsureRecords ==
    { [id |-> "m2", ipfs_hash |-> "Qm2", model_type |-> "pkl",
       downloads |-> 0, uploaded_at |-> NoStamp,
       creator |-> "0xcd", name |-> "n0", gateway_url |-> ""],
      [id |-> "m2", ipfs_hash |-> NoHash, model_type |-> "pkl",
       downloads |-> 0, uploaded_at |-> NoStamp,
       creator |-> "0xcd", name |-> "n0", gateway_url |-> ""] }

\* Records are added, with saves that succeed or fail, downloaded, and the
\* process is started again on the same cache directory
NextEnsure ==
    \/ \E h \in Handlers, r \in EnsureRecords, s \in SaveOutcomes :
          add_model(h, r, s)
    \/ \E h \in Handlers, i \in Ids : download_model(h, i)
    \/ \E h \in Handlers, o \in {"non200", "ok200"} : df_try(h, o)
    \/ \E h \in Handlers, e \in {"chunk", "stream_error"} : df_stream(h, e)
    \/ restart

SpecEnsure == Init /\ [][NextEnsure]_vars

\* C31: download_model of a registered id whose cache file is present
\* returns True with no gateway request and leaves the file alone, whether
\* or not the record has an ipfs_hash; with the file absent it enters
\* download_file once, with the record's ipfs_hash and the path of
\* get_cached_model_path, and returns what download_file returned.
C31_EnsureIsNoOpWhenPresent ==
    [][ \A h \in Handlers, i \in Ids :
          /\ ( /\ Calls(h, "download_model", i)
               /\ is_model_cached(registry, files, i) )
             => /\ hs'[h].pc = "idle"
                /\ hs'[h].kind = "bool" /\ hs'[h].val = 1
                /\ hs'[h].tried = <<>>
                /\ hs'[h].df = "none"
                /\ files' = files
          /\ ( /\ Calls(h, "download_model", i)
               /\ Registered(i)
               /\ ~ MetadataOnly(i)
               /\ ~ is_model_cached(registry, files, i) )
             => /\ hs'[h].pc = "df_try"
                /\ hs'[h].hash = get_model_info(registry, i)[1].ipfs_hash
                /\ hs'[h].path = get_cached_model_path(registry, i)[1]
          /\ ( /\ hs[h].op = "download_model"
               /\ hs[h].pc \in {"df_try", "df_stream"}
               /\ hs'[h].pc = "idle" )
             => /\ hs'[h].kind = "bool"
                /\ hs'[h].val = Bool(hs'[h].df = "true") ]_vars

----------------------------------------------------------------------------
(* main.py: get_models *)

\* pinned_hashes: the content ids of the rows that carry one
PinnedHashes(rows) ==
    { rows[n].ipfs_pin_hash : n \in { k \in 1..Len(rows) : HasCid(rows[k]) } }

\* Lines 148-160: the records of the registry, and with PINATA_API_KEY set
\* only those whose ipfs_hash is among the rows list_pinned_files returned,
\* none when it returned no row with a content id
Kept(keys, models, rows) ==
    IF ~ keys THEN models
    ELSE IF PinnedHashes(rows) = {} THEN <<>>
    ELSE SelectSeq(models, LAMBDA m : m.ipfs_hash \in PinnedHashes(rows))

\* Lines 163-167: gateway_url is assigned to every record of the listing
\* that has an ipfs_hash; the records are the dicts of the registry
WithUrl(gateway, m) ==
    IF m.ipfs_hash # NoHash
    THEN [m EXCEPT !.gateway_url = gateway \o m.ipfs_hash] ELSE m

\* GET /api/models
get_models(h, outcome) ==
    /\ Idle(h)
    /\ LET rows == list_pinned_files(PINATA_KEYS, pinned, outcome)
           kept == Kept(PINATA_KEYS, registry, rows)
           listed(m) == \E n \in 1..Len(kept) : kept[n] = m
       IN /\ registry' = [n \in 1..Len(registry) |->
                            IF listed(registry[n])
                            THEN WithUrl(IPFS_GATEWAY, registry[n])
                            ELSE registry[n]]
          /\ hs' = [hs EXCEPT ![h] =
                      Return([Begin(h, "get_models", "") EXCEPT
                                 !.sent = Bool(PINATA_KEYS),
                                 !.http = IF PINATA_KEYS THEN StatusOf(outcome)
                                          ELSE 0,
                                 !.listing = [n \in 1..Len(kept) |->
                                                 WithUrl(IPFS_GATEWAY, kept[n])]],
                             "http", 200)]
    /\ UNCHANGED <<IPFS_GATEWAY, handlers, regFile, loaded_models, files,
                   nextObj, envVars>>

\* A server that starts with a registry file, with or without credentials,
\* on an account that has none, one or both of the contents pinned
InitList ==
    /\ IPFS_GATEWAY = DEFAULT_GATEWAY
    /\ handlers = {"h1"}
    /\ registry \in SeedRegistries
    /\ regFile = registry
    /\ loaded_models = <<>>
    /\ files = [p \in CachePaths |-> NoFile]
    /\ hs = [h \in Handlers |-> NoCall]
    /\ nextObj = 1
    /\ PINATA_KEYS \in BOOLEAN
    /\ pinned \in { <<>>, << Row("Qm1") >>, << Row("Qm2"), Row("Qm1") >>,
                    << Row(NoHash), Row("Qm2") >> }
    /\ ua = NoUnpinAll
    /\ peer = NoPeer
    /\ main_model = NoModel

\* The two requests that read the registry, and pins that come and go
NextList ==
    \/ \E h \in Handlers, o \in ProviderOutcomes : get_models(h, o)
    \/ \E h \in Handlers, i \in Ids, o \in ProviderOutcomes :
          get_model_details(h, i, o)
    \/ \E h \in Handlers, c \in Cids, o \in ProviderOutcomes :
          unpin_file(h, c, o)
    \/ \E h \in Handlers, c \in {"Qm1", "Qm2"}, o \in ProviderOutcomes :
          upload_json(h, c, o)

SpecList == InitList /\ [][NextList]_vars

\* The records whose content id the provider has pinned now
StillPinned(models) ==
    SelectSeq(models, LAMBDA m : m.ipfs_hash \in PinnedHashes(pinned))

\* C32: with credentials, the listing is the records of the registry whose
\* ipfs_hash is in the provider's pin list, in the order of the registry,
\* and the details request of a record whose ipfs_hash is not in the pin
\* list answers 404.
C32_ListingIsPinnedRecords ==
    [][ \A h \in Handlers :
          /\ (Calls(h, "get_models", "") /\ PINATA_KEYS)
             => [n \in 1..Len(hs'[h].listing) |-> hs'[h].listing[n].id]
                = [n \in 1..Len(StillPinned(registry)) |->
                      StillPinned(registry)[n].id]
          /\ \A i \in Ids :
               ( /\ Calls(h, "get_model_details", i)
                 /\ PINATA_KEYS
                 /\ Registered(i)
                 /\ ~ MetadataOnly(i)
                 /\ get_model_info(registry, i)[1].ipfs_hash
                       \notin PinnedHashes(pinned) )
               => hs'[h].val = 404 ]_vars

----------------------------------------------------------------------------
(* Termination of load_model *)

\* A step of a call that is in flight: a gateway answers, fails or runs
\* into its timeout (requests.get(..., timeout=60)), the stream yields a
\* chunk or breaks, the loader returns or raises
InFlightStep ==
    \/ \E h \in Handlers, o \in TryOutcomes : df_try(h, o)
    \/ \E h \in Handlers, e \in StreamEvents : df_stream(h, e)
    \/ \E h \in Handlers, o \in LoadOutcomes : lm_load(h, o)

\* The calls of SpecFetch, where no attempt and no loader hangs for ever
SpecFetchFair == InitFetch /\ [][NextFetch]_vars /\ WF_vars(InFlightStep)

\* C33: every load_model call that is in flight returns, an object or None;
\* on the way it requests no URL twice and no more URLs than the candidate
\* list has.
C33_ResolveTerminates ==
    /\ [] \A h \in Handlers :
            /\ NoRepeat(hs[h].tried)
            /\ Len(hs[h].tried) <= Len(Gateways(IPFS_GATEWAY, "Qm1"))
            /\ hs[h].pc \in {"df_try", "df_stream"}
                 => hs[h].idx = Len(hs[h].tried) + Bool(hs[h].pc = "df_try")
    /\ \A h \in Handlers :
          (hs[h].op = "load_model" /\ hs[h].pc # "idle")
          ~> ( /\ hs[h].op = "load_model" /\ hs[h].pc = "idle"
               /\ hs[h].kind \in {"handle", "none"} )

C33_Witness ==
    \E h \in handlers :
        /\ hs[h].op = "load_model"
        /\ hs[h].pc = "idle"
        /\ hs[h].kind = "none"
        /\ hs[h].df = "false"
        /\ hs[h].partial
        /\ hs[h].failed = Len(Gateways(IPFS_GATEWAY, Info(hs[h].id).ipfs_hash))
        /\ Len(hs[h].tried) = hs[h].failed

----------------------------------------------------------------------------
(* The delete request and the caches *)

\* C34: a delete request by the creator of a record whose artifact is in
\* the disk cache and in the memory cache succeeds, and after it neither
\* the cache file of the id nor an entry of the id in loaded_models is
\* left.
C34_DeleteCascades ==
    [][ \A h \in Handlers, i \in Ids :
          ( /\ Calls(h, "delete_model", i)
            /\ hs'[h].owned
            /\ is_model_cached(registry, files, i)
            /\ i \in DOMAIN loaded_models )
          => /\ hs'[h].val = 200
             /\ ~ files'[get_cached_model_path(registry, i)[1]].exists
             /\ i \notin DOMAIN loaded_models' ]_vars

----------------------------------------------------------------------------
(* The requests that read the registry *)

\* C35: the listing request and the details request leave every record of
\* the registry, in memory and in the file, with the fields and values it
\* had before the request.
C35_ReadsLeaveRegistry ==
    [][ \A h \in Handlers :
          ( \/ Calls(h, "get_models", "")
            \/ \E i \in Ids : Calls(h, "get_model_details", i) )
          => /\ registry' = registry
             /\ regFile' = regFile ]_vars

----------------------------------------------------------------------------
(* The delete request: the pin and the record *)

\* C36: a delete request by the creator of a record either removes the
\* record and leaves its content unpinned, or fails and leaves the pin list
\* and the registry as they were; no record stays whose content the request
\* unpinned.
C36_DeleteAllOrNothing ==
    [][ \A h \in Handlers, i \in Ids :
          ( /\ Calls(h, "delete_model", i)
            /\ hs'[h].owned
            /\ ~ MetadataOnly(i) )
          => \/ /\ hs'[h].val = 200
                /\ get_model_info(registry', i) = <<>>
                /\ get_model_info(registry, i)[1].ipfs_hash
                      \notin PinnedHashes(pinned')
             \/ /\ hs'[h].val # 200
                /\ registry' = registry
                /\ pinned' = pinned ]_vars

----------------------------------------------------------------------------
(* main.py: upload_model *)

\* The metadata of an upload request of a file with an allowed extension,
\* under the id line 249 makes of the name and of a uuid4 prefix, with the
\* content id the provider computes for the file
UploadRecords == { r \in NewRecords : r.ipfs_hash # NoHash }

\* POST /api/models/upload: the temporary file is posted to the provider;
\* without an IpfsHash the request ends in 500 (lines 243-244, 308-314);
\* with one the record is handed to add_model, whose result is not looked
\* at (line 295), and the request answers success
upload_model(h, r, outcome, save) ==
    /\ Idle(h)
    /\ ua.pc = "idle"
    /\ Len(registry) < MaxModels
    /\ Len(pinned) < MaxPins
    /\ ~ \E n \in 1..Len(registry) : registry[n].id = r.id
    /\ LET asks == UploadAsks(PINATA_KEYS, TRUE)
           got == asks /\ StatusOf(outcome) = 200
           c == [Begin(h, "upload_model", IF got THEN r.id ELSE "") EXCEPT
                    !.sent = Bool(asks),
                    !.http = IF asks THEN StatusOf(outcome) ELSE 0]
       IN /\ pinned' = IF asks THEN PinsAfterPin(pinned, r.ipfs_hash, outcome)
                       ELSE pinned
          /\ registry' = IF got
                         THEN Append(registry, [r EXCEPT !.uploaded_at = Now])
                         ELSE registry
          /\ regFile' = IF got /\ save = "ok" THEN registry' ELSE regFile
          /\ hs' = [hs EXCEPT ![h] =
                      IF got
                      THEN [Return(c, "http", 200) EXCEPT !.hash = r.ipfs_hash]
                      ELSE Return(c, "http", 500)]
    /\ UNCHANGED <<IPFS_GATEWAY, handlers, loaded_models, files, nextObj,
                   PINATA_KEYS, ua, peer, main_model>>

\* A server that starts without a registry file, with or without the
\* credentials
InitPublish ==
    /\ IPFS_GATEWAY = DEFAULT_GATEWAY
    /\ handlers = {"h1"}
    /\ registry = <<>>
    /\ regFile = <<>>
    /\ loaded_models = <<>>
    /\ files = [p \in CachePaths |-> NoFile]
    /\ hs = [h \in Handlers |-> NoCall]
    /\ nextObj = 1
    /\ PINATA_KEYS \in BOOLEAN
    /\ pinned = <<>>
    /\ ua = NoUnpinAll
    /\ peer = NoPeer
    /\ main_model = NoModel

\* Uploads, unpins, listings, and restarts of the server
NextPublish ==
    \/ \E h \in Handlers, r \in UploadRecords, o \in ProviderOutcomes,
          s \in SaveOutcomes : upload_model(h, r, o, s)
    \/ \E h \in Handlers, c \in {"Qm1", "Qm2"}, o \in ProviderOutcomes :
          unpin_file(h, c, o)
    \/ \E h \in Handlers, o \in ProviderOutcomes : get_models(h, o)
    \/ restart

SpecPublish == InitPublish /\ [][NextPublish]_vars

\* The registry file holds a record with this id and this content id
Persisted(file, model_id, cid) ==
    \E n \in 1..Len(file) : file[n].id = model_id /\ file[n].ipfs_hash = cid

\* C37: an upload request answers success with (model_id, ipfs_hash)
\* exactly when the registry then holds a persisted record with that id and
\* that ipfs_hash; when the provider gives no content id no record is
\* added.
C37_SuccessIffRegistered ==
    [][ \A h \in Handlers :
          ( /\ hs[h].pc = "idle" /\ hs'[h] # hs[h]
            /\ hs'[h].op = "upload_model" )
          => /\ hs'[h].val = 200
                <=> /\ Persisted(regFile', hs'[h].id, hs'[h].hash)
                    /\ Persisted(registry', hs'[h].id, hs'[h].hash)
             /\ hs'[h].http # 200 => registry' = registry ]_vars

----------------------------------------------------------------------------
(* load_model that returns None *)

\* C38: no step of a load_model call changes loaded_models, except the
\* one that returns the object; and a load_model of a record whose model
\* type has no loader requests no gateway and writes nothing into the disk
\* cache.
C38_FailedLoadKeepsMemory ==
    [][ \A h \in Handlers :
          /\ ( /\ hs'[h] # hs[h] /\ hs'[h].op = "load_model"
               /\ ~ (hs'[h].pc = "idle" /\ hs'[h].kind = "handle") )
             => loaded_models' = loaded_models
          /\ ( /\ hs'[h] # hs[h] /\ hs'[h].op = "load_model"
               /\ Registered(hs'[h].id)
               /\ ~ Loadable(hs'[h].id) )
             => /\ hs'[h].tried = <<>>
                /\ files' = files ]_vars
====
